---- MODULE Spec2Model ----
(***************************************************************************)
(* Model of the Hierophant Hymn territory generator (mapGenerator.ts,     *)
(* nameGenerator.ts, seededRandom.ts, metadataGenerator.ts,               *)
(* colorGenerator.ts).                                                    *)
(*                                                                        *)
(* Numbers.  The program computes with IEEE-754 doubles, and its seeds    *)
(* (Date.now()) are wider than 31 bits.  A JavaScript number is modelled  *)
(* as the double it is: [neg, m, e] stands for (-1)^neg * m / 2^e with m  *)
(* a natural number of at most 53 bits, and every operation returns the   *)
(* exact result rounded to the nearest double, ties to even.  Array       *)
(* indices, counts and the integer results of Math.floor and Math.round   *)
(* are plain integers.                                                    *)
(***************************************************************************)
EXTENDS Integers, Sequences, FiniteSets, TLC

(***************************************************************************)
(* Natural numbers wider than 31 bits: little-endian sequences of limbs   *)
(* in 0..Base-1 with no leading zero limb (zero is the empty sequence).   *)
(***************************************************************************)
\* a limb holds 13 bits: the product of two limbs, plus a carry, stays below 2^31
Base == 2 ^ 13

Pow2(k) == 2 ^ k

Max2(a, b) == IF a >= b THEN a ELSE b

Min2(a, b) == IF a <= b THEN a ELSE b

Abs(n) == IF n < 0 THEN -n ELSE n

RECURSIVE BNorm(_)
BNorm(a) == IF a = << >> THEN << >>
            ELSE IF a[Len(a)] = 0 THEN BNorm(SubSeq(a, 1, Len(a) - 1))
            ELSE a

RECURSIVE BFromInt(_)
BFromInt(n) == IF n = 0 THEN << >> ELSE <<n % Base>> \o BFromInt(n \div Base)

RECURSIVE BToInt(_)
BToInt(a) == IF a = << >> THEN 0 ELSE a[1] + Base * BToInt(Tail(a))

Limb(a, i) == IF i <= Len(a) THEN a[i] ELSE 0

RECURSIVE BCmpFrom(_, _, _)
BCmpFrom(a, b, i) == IF i = 0 THEN 0
                     ELSE IF a[i] > b[i] THEN 1
                     ELSE IF a[i] < b[i] THEN -1
                     ELSE BCmpFrom(a, b, i - 1)

BCmp(a, b) == IF Len(a) > Len(b) THEN 1
              ELSE IF Len(a) < Len(b) THEN -1
              ELSE BCmpFrom(a, b, Len(a))

RECURSIVE BAddFrom(_, _, _, _)
BAddFrom(a, b, i, carry) ==
    IF i > Len(a) /\ i > Len(b)
    THEN (IF carry = 0 THEN << >> ELSE <<carry>>)
    ELSE LET s == Limb(a, i) + Limb(b, i) + carry
         IN  <<s % Base>> \o BAddFrom(a, b, i + 1, s \div Base)

BAdd(a, b) == BAddFrom(a, b, 1, 0)

RECURSIVE BSubFrom(_, _, _, _)
BSubFrom(a, b, i, borrow) ==
    IF i > Len(a) THEN << >>
    ELSE LET s == a[i] - Limb(b, i) - borrow
         IN  <<s % Base>> \o BSubFrom(a, b, i + 1, IF s < 0 THEN 1 ELSE 0)

\* a - b for a >= b
BSub(a, b) == BNorm(BSubFrom(a, b, 1, 0))

RECURSIVE BMulSmallFrom(_, _, _, _)
BMulSmallFrom(a, k, i, carry) ==
    IF i > Len(a) THEN BFromInt(carry)
    ELSE LET s == a[i] * k + carry
         IN  <<s % Base>> \o BMulSmallFrom(a, k, i + 1, s \div Base)

\* a * k for 0 <= k < 2^17
BMulSmall(a, k) == IF k = 0 THEN << >> ELSE BMulSmallFrom(a, k, 1, 0)

BShiftLimbs(a, n) == IF a = << >> THEN << >> ELSE [i \in 1..n |-> 0] \o a

\* a times the limbs i..j of b, each at its position
RECURSIVE BMulFrom(_, _, _, _)
BMulFrom(a, b, i, j) ==
    IF i > j THEN << >>
    ELSE IF i = j THEN BShiftLimbs(BMulSmall(a, b[i]), i - 1)
    ELSE BAdd(BMulFrom(a, b, i, (i + j) \div 2),
              BMulFrom(a, b, (i + j) \div 2 + 1, j))

BMul(a, b) == BMulFrom(a, b, 1, Len(b))

RECURSIVE BModSmallFrom(_, _, _, _)
BModSmallFrom(a, m, i, r) ==
    IF i = 0 THEN r ELSE BModSmallFrom(a, m, i - 1, (r * Base + a[i]) % m)

\* a mod m for 0 < m < 2^18
BModSmall(a, m) == BModSmallFrom(a, m, Len(a), 0)

RECURSIVE IntBitLen(_)
IntBitLen(n) == IF n = 0 THEN 0 ELSE 1 + IntBitLen(n \div 2)

\* the bits of a limb
LimbBits == IntBitLen(Base - 1)

BBitLen(a) == IF a = << >> THEN 0
              ELSE LimbBits * (Len(a) - 1) + IntBitLen(a[Len(a)])

\* floor(a / 2^k)
BShr(a, k) ==
    LET n == k \div LimbBits
        b == k % LimbBits
        hi == IF n >= Len(a) THEN << >> ELSE SubSeq(a, n + 1, Len(a))
    IN  BNorm([i \in 1..Len(hi) |->
                 (hi[i] \div Pow2(b)) + (Limb(hi, i + 1) % Pow2(b)) * Pow2(LimbBits - b)])

\* a * 2^k
BShl(a, k) == BShiftLimbs(BMulSmall(a, Pow2(k % LimbBits)), k \div LimbBits)

BIsOdd(a) == a # << >> /\ a[1] % 2 = 1

\* the precision of a double: 52 stored fraction bits and the implicit leading bit
MantissaBits == 52 + 1

RECURSIVE BDivSmallFrom(_, _, _, _)
BDivSmallFrom(a, m, i, r) ==
    IF i = 0 THEN << >>
    ELSE LET t == r * Base + a[i]
         IN  BDivSmallFrom(a, m, i - 1, t % m) \o <<t \div m>>

\* floor(a / m) for 0 < m < 2^18
BDivSmall(a, m) == BNorm(BDivSmallFrom(a, m, Len(a), 0))

\* whether the digit d fits: d * b <= r
BDivFits(r, b, d) == BCmp(BMulSmall(b, d), r) <= 0

\* the largest of lo, lo + step, ... up to hi that fits (lo fits, and the
\* digits that fit are an initial run)
BDivCount(r, b, lo, hi, step) ==
    lo + step * Cardinality({k \in 1..((hi - lo) \div step) :
                                BDivFits(r, b, lo + k * step)})

BDivFine(r, b, lo, hi) == BDivCount(r, b, lo, Min2(hi, lo + (Base \div 256) - 1), 1)

BDivMiddle(r, b, lo, hi) ==
    BDivFine(r, b, BDivCount(r, b, lo, Min2(hi, lo + (Base \div 16) - 1),
                             Base \div 256), hi)

\* the largest d in lo..hi with d * b <= r, searched in three refinements
BDigit(r, b, lo, hi) == BDivMiddle(r, b, BDivCount(r, b, lo, hi, Base \div 16), hi)

\* the quotient limb of t by b, top being the two leading limbs of t
BDivEstimate(t, b, top) ==
    BDigit(t, b, top \div (b[Len(b)] + 1), Min2(Base - 1, (top + 1) \div b[Len(b)]))

\* a quotient limb d and the remainder it leaves of t
BDivRem(t, b, d) == [d |-> d, r |-> BSub(t, BMulSmall(b, d))]

BDivStep(t, b) ==
    BDivRem(t, b,
            IF BCmp(t, b) < 0 THEN 0
            ELSE BDivEstimate(t, b, Limb(t, Len(b) + 1) * Base + Limb(t, Len(b))))

\* the quotient limb d goes in front of the limbs the lower positions give
BDivPush(rest, d) == [q |-> rest.q \o <<d>>, r |-> rest.r]

\* long division: [q, r] for the limbs i..1 of a, with r the running remainder
RECURSIVE BDivFrom(_, _, _, _)
BDivFrom(a, b, i, r) ==
    IF i = 0 THEN [q |-> << >>, r |-> r]
    ELSE CHOOSE res \in {BDivPush(BDivFrom(a, b, i - 1, step.r), step.d) :
                             step \in {BDivStep(BNorm(<<a[i]>> \o r), b)}} : TRUE

BDivNorm(res) == [q |-> BNorm(res.q), r |-> res.r]

\* [q, r] with a = q * b + r and 0 <= r < b, for b > 0: the leading limbs
\* of a, one fewer than b has, are the first running remainder
BDivMod(a, b) ==
    IF Len(a) < Len(b) THEN [q |-> << >>, r |-> a]
    ELSE BDivNorm(BDivFrom(a, b, Len(a) - Len(b) + 1,
                           BNorm(SubSeq(a, Len(a) - Len(b) + 2, Len(a)))))

\* whether the digit d fits: (twoR * Base + d) * d <= rem
BSqrtFits(rem, twoR, d) == BCmp(BMulSmall(<<d>> \o twoR, d), rem) <= 0

\* the largest of lo, lo + step, ..., lo + n * step that fits (lo fits, and
\* the digits that fit are an initial run)
BSqrtCount(rem, twoR, lo, step, n) ==
    lo + step * Cardinality({k \in 1..n : BSqrtFits(rem, twoR, lo + k * step)})

\* the largest digit below Base that fits, searched in three refinements
BSqrtDigit(rem, twoR) ==
    BSqrtCount(rem, twoR,
               BSqrtCount(rem, twoR,
                          BSqrtCount(rem, twoR, 0, Base \div 16, 15),
                          Base \div 256, 15),
               1, (Base \div 256) - 1)

\* long-hand square root, two limbs (a[i+1], a[i]) at a time
RECURSIVE BSqrtFrom(_, _, _, _)

BSqrtWith(a, i, r, rem1, twoR, d) ==
    BSqrtFrom(a, i - 2, BNorm(<<d>> \o r), BSub(rem1, BMulSmall(<<d>> \o twoR, d)))

BSqrtStep(a, i, r, rem1, twoR) ==
    CHOOSE res \in {BSqrtWith(a, i, r, rem1, twoR, d) :
                        d \in {BSqrtDigit(rem1, twoR)}} : TRUE

BSqrtFrom(a, i, r, rem) ==
    IF i < 1 THEN [r |-> r, rem |-> rem]
    ELSE CHOOSE res \in {BSqrtStep(a, i, r, rem1, twoR) :
                             rem1 \in {BNorm(<<a[i], Limb(a, i + 1)>> \o rem)},
                             twoR \in {BMulSmall(r, 2)}} : TRUE

\* [r, rem] with r = floor(sqrt(a)) and rem = a - r * r
BSqrtRem(a) == BSqrtFrom(a, Len(a) - ((Len(a) + 1) % 2), << >>, << >>)

RECURSIVE IntTrailingZeros(_)
IntTrailingZeros(n) == IF n % 2 = 1 THEN 0 ELSE 1 + IntTrailingZeros(n \div 2)

RECURSIVE BTrailingZeros(_)
BTrailingZeros(a) ==
    IF a[1] = 0 THEN LimbBits + BTrailingZeros(Tail(a)) ELSE IntTrailingZeros(a[1])

(***************************************************************************)
(* Doubles.                                                               *)
(***************************************************************************)
DZero == [neg |-> FALSE, m |-> << >>, e |-> 0]

\* the canonical form of (-1)^neg * m / 2^e: m odd, or zero
CanonShift(neg, m, e, z) == [neg |-> neg, m |-> BShr(m, z), e |-> e - z]

Canon(neg, m, e) ==
    IF m = << >> THEN DZero ELSE CanonShift(neg, m, e, BTrailingZeros(m))

\* The double nearest to (-1)^neg * (m + f) / 2^e, where 0 < f < 1 if sticky
\* and f = 0 otherwise; a sticky m has more than 54 bits.
\* c compares the k bits cut off m with half a unit of q
RoundUp(neg, q, e, sticky, c) ==
    Canon(neg, IF c = 1 \/ (c = 0 /\ (sticky \/ BIsOdd(q))) THEN BAdd(q, <<1>>) ELSE q, e)

RoundTo(neg, m, e, sticky, k, q) ==
    RoundUp(neg, q, e - k, sticky, BCmp(BSub(m, BShl(q, k)), BShl(<<1>>, k - 1)))

RoundCut(neg, m, e, sticky, k) == RoundTo(neg, m, e, sticky, k, BShr(m, k))

Round(neg, m, e, sticky) ==
    IF BBitLen(m) <= MantissaBits THEN Canon(neg, m, e)
    ELSE RoundCut(neg, m, e, sticky, BBitLen(m) - MantissaBits)

\* the double of an integer below 2^31 in magnitude
Num(n) == Canon(n < 0, BFromInt(Abs(n)), 0)

DNeg(a) == IF a.m = << >> THEN a ELSE [a EXCEPT !.neg = ~a.neg]

DAbs(a) == [a EXCEPT !.neg = FALSE]

\* the mantissa of a at exponent e >= a.e
Scaled(a, e) == BShl(a.m, e - a.e)

\* -1, 0 or 1 as |a| is below, equal to or above |b|
CmpAbs(a, b) ==
    LET e == Max2(a.e, b.e) IN BCmp(Scaled(a, e), Scaled(b, e))

DLess(a, b) ==
    IF a.neg # b.neg THEN a.neg
    ELSE IF a.neg THEN CmpAbs(a, b) = 1 ELSE CmpAbs(a, b) = -1

\* (-1)^an * x / 2^e + (-1)^bn * y / 2^e, c comparing x with y
DAddCmp(an, bn, x, y, e, c) ==
    IF an = bn THEN Round(an, BAdd(x, y), e, FALSE)
    ELSE IF c = 0 THEN DZero
    ELSE IF c = 1 THEN Round(an, BSub(x, y), e, FALSE)
    ELSE Round(bn, BSub(y, x), e, FALSE)

DAddScaled(an, bn, x, y, e) == DAddCmp(an, bn, x, y, e, BCmp(x, y))

DAddAt(a, b, e) == DAddScaled(a.neg, b.neg, Scaled(a, e), Scaled(b, e), e)

DAdd(a, b) ==
    IF a.m = << >> THEN b
    ELSE IF b.m = << >> THEN a
    ELSE DAddAt(a, b, Max2(a.e, b.e))

DSub(a, b) == DAdd(a, DNeg(b))

DMul(a, b) ==
    IF a.m = << >> \/ b.m = << >> THEN DZero
    ELSE Round(a.neg # b.neg, BMul(a.m, b.m), a.e + b.e, FALSE)

\* a / b for b # 0
DDivSmall(neg, x, m, e) == Round(neg, BDivSmall(x, m), e, BModSmall(x, m) # 0)

DDivBig(neg, d, e) == Round(neg, d.q, e, d.r # << >>)

\* x / b.m at exponent e, x carrying at least 55 quotient bits
DDivShifted(neg, x, b, e) ==
    IF BBitLen(b.m) <= 18 THEN DDivSmall(neg, x, BToInt(b.m), e)
    ELSE DDivBig(neg, BDivMod(x, b.m), e)

DDivBy(a, b, s) == DDivShifted(a.neg # b.neg, BShl(a.m, s), b, a.e - b.e + s)

DDiv(a, b) ==
    IF a.m = << >> THEN DZero
    ELSE DDivBy(a, b, Max2(0, MantissaBits + 2 + BBitLen(b.m) - BBitLen(a.m)))

\* Math.sqrt(a) for a >= 0
DSqrtRound(r, e) == Round(FALSE, r.r, e, r.rem # << >>)

DSqrtBy(m, e, s) == DSqrtRound(BSqrtRem(BShl(m, 2 * s)), (e \div 2) + s)

\* sqrt(m / 2^e) for an even e
DSqrtEven(m, e) == DSqrtBy(m, e, Max2(0, MantissaBits + 2 - (BBitLen(m) \div 2)))

DSqrt(a) ==
    IF a.m = << >> THEN DZero
    ELSE IF a.e % 2 = 1 THEN DSqrtEven(BShl(a.m, 1), a.e + 1)
    ELSE DSqrtEven(a.m, a.e)

\* a % m for an integer 0 < m < 2^18: exact, with the sign of a
DRem(a, m) ==
    IF a.e <= 0 THEN Canon(a.neg, BFromInt(BModSmall(Scaled(a, 0), m)), 0)
    ELSE Canon(a.neg, BDivMod(a.m, BShl(BFromInt(m), a.e)).r, a.e)

DMin(a, b) == IF DLess(b, a) THEN b ELSE a

DMax(a, b) == IF DLess(a, b) THEN b ELSE a

\* the double a source literal n/d denotes (the double nearest to n/d)
Lit(n, d) == DDiv(Num(n), Num(d))

\* floor((-1)^neg * t / 2^e) for e >= 0, below 2^31 in magnitude
FloorOf(neg, t, e, q) ==
    IF ~neg THEN BToInt(q)
    ELSE IF BShl(q, e) = t THEN -BToInt(q) ELSE -BToInt(q) - 1

FloorShift(neg, t, e) == FloorOf(neg, t, e, BShr(t, e))

\* Math.floor(a), for a result below 2^31 in magnitude
DFloor(a) ==
    IF a.m = << >> THEN 0
    ELSE FloorShift(a.neg, Scaled(a, Max2(a.e, 0)), Max2(a.e, 0))

\* Math.round(a) = floor(a + 1/2) exactly: the nearest integer, a tie going up
DRoundHalf(neg, t, half, e) ==
    IF ~neg THEN FloorShift(FALSE, BAdd(t, half), e)
    ELSE IF BCmp(t, half) <= 0 THEN 0
    ELSE FloorShift(TRUE, BSub(t, half), e)

DRoundAt(a, e) == DRoundHalf(a.neg, Scaled(a, e), BShl(<<1>>, e - 1), e)

\* Math.round as an integer; the integers have one zero, so the -0 that
\* Math.round returns for a value in [-0.5, 0) is 0
DRound(a) == IF a.m = << >> THEN 0 ELSE DRoundAt(a, Max2(a.e, 0) + 1)

\* the integer held by an integer-valued double below 2^31 in magnitude
IntOf(a) == DFloor(a)

\* an integer-valued double
IsInteger(a) == a.e <= 0

(***************************************************************************)
(* seededRandom.ts: the generator the name generator imports.  An         *)
(* instance is its seed field; a method returns the instance after the     *)
(* call and the value returned.                                           *)
(***************************************************************************)
Multiplier == 9301
Increment == 49297
Modulus == 233280

\* (seed * 9301 + 49297) % 233280, in doubles; % keeps the dividend's sign
Lcg(seed) == DRem(DAdd(DMul(seed, Num(Multiplier)), Num(Increment)), Modulus)

SeededRandom(seed) == [seed |-> seed]

\* return this.seed / modulus, the seed field having been set to s
Draw(s, modulus) == [rng |-> [seed |-> s], value |-> DDiv(s, Num(modulus))]

\* Math.floor(d * (max - min + 1)) + min, d being what this.next() gave
DrawInt(d, min, max) ==
    [rng |-> d.rng, value |-> DFloor(DMul(d.value, Num(max - min + 1))) + min]

next(rng) == Draw(Lcg(rng.seed), Modulus)

nextInt(rng, min, max) == DrawInt(next(rng), min, max)

\* the values of n successive rng.next() calls
RECURSIVE NextValues(_, _)

NextValuesAfter(d, n) == <<d.value>> \o NextValues(d.rng, n - 1)

NextValues(rng, n) == IF n <= 0 THEN << >> ELSE NextValuesAfter(next(rng), n)

(***************************************************************************)
(* mapGenerator.ts: its own copy of the generator (next only).            *)
(***************************************************************************)
MapSeededRandom(seed) == [seed |-> seed]

\* a recurrence with another increment
MapNextOtherIncrement(rng) ==
    Draw(DRem(DAdd(DMul(rng.seed, Num(9301)), Num(49299)), 233280), 233280)

MapNext(rng) ==
    Draw(DRem(DAdd(DMul(rng.seed, Num(9301)), Num(49297)), 233280), 233280)

\* the values of n successive rng.next() calls
RECURSIVE MapNextValues(_, _)

MapNextValuesAfter(d, n) == <<d.value>> \o MapNextValues(d.rng, n - 1)

MapNextValues(rng, n) == IF n <= 0 THEN << >> ELSE MapNextValuesAfter(MapNext(rng), n)

(***************************************************************************)
(* metadataGenerator.ts: its own copy of the generator.                   *)
(***************************************************************************)
MetaSeededRandom(seed) == [seed |-> seed]

MetaNext(rng) ==
    Draw(DRem(DAdd(DMul(rng.seed, Num(9301)), Num(49297)), 233280), 233280)

MetaNextInt(rng, min, max) == DrawInt(MetaNext(rng), min, max)

\* the values of successive rng.nextInt calls, one per range <<min, max>>
RECURSIVE MetaNextInts(_, _)

MetaNextIntsAfter(d, ranges) == <<d.value>> \o MetaNextInts(d.rng, Tail(ranges))

MetaNextInts(rng, ranges) ==
    IF ranges = << >> THEN << >>
    ELSE MetaNextIntsAfter(MetaNextInt(rng, ranges[1][1], ranges[1][2]), ranges)

(***************************************************************************)
(* nameGenerator.ts                                                       *)
(***************************************************************************)
prefixes ==
    << "Ald", "Bal", "Cor", "Dun", "Eld", "Fal", "Gar", "Hil", "Kal", "Lor",
       "Mor", "Nor", "Ost", "Pel", "Quen", "Rav", "Sil", "Thal", "Val", "Wel",
       "Wyn", "Xer", "Yor", "Zar", "Bran", "Crim", "Drak", "Eber", "Frey", "Glen" >>

middles ==
    << "dor", "mar", "wen", "thor", "var", "len", "dan", "kel", "rin", "mor",
       "wyn", "dal", "gar", "ven", "ton", "burg", "ham", "shire", "dale", "wood",
       "mer", "son", "ter", "den", "ford", "mont", "vale", "ridge", "stone", "haven" >>

suffixes ==
    << "ia", "or", "en", "ar", "on", "us", "um", "land", "mark", "reich",
       "dom", "hold", "stead", "ton", "field", "mere", "moor", "crest", "peak", "watch" >>

\* the JavaScript values an entry read from a table and a sum of such
\* entries can be: a string, the value undefined, the number NaN
Str(s) == [t |-> "string", s |-> s]

Undefined == [t |-> "undefined"]

NaN == [t |-> "NaN"]

\* the string a value is converted to where it is added to a string
ToText(v) ==
    CASE v.t = "string" -> v.s
      [] v.t = "undefined" -> "undefined"
      [] v.t = "NaN" -> "NaN"

\* a + b: concatenation where either operand is a string, else the sum of
\* the operands as numbers, which is NaN for undefined and for NaN
Plus(a, b) ==
    IF a.t = "string" \/ b.t = "string" THEN Str(ToText(a) \o ToText(b)) ELSE NaN

\* table[i] of a 0-based array of strings; an index outside it reads
\* undefined
At(table, i) == IF 0 <= i /\ i < Len(table) THEN Str(table[i + 1]) ELSE Undefined

\* the return statements: the structure rand selects
NameOf(rand, prefix, middle, suffix) ==
    IF DLess(rand, Lit(6, 10)) THEN Plus(Plus(prefix, middle), suffix)
    ELSE IF DLess(rand, Lit(9, 10)) THEN Plus(prefix, suffix)
    ELSE Plus(prefix, middle)

\* the draws taken in another order: the suffix index first, rand last
NameFromSuffixFirst(v) ==
    NameOf(v[4],
           At(prefixes, DFloor(DMul(v[2], Num(Len(prefixes))))),
           At(middles, DFloor(DMul(v[3], Num(Len(middles))))),
           At(suffixes, DFloor(DMul(v[1], Num(Len(suffixes))))))

\* v holds the four rng.next() values in call order: rand, then the draws
\* that index prefixes, middles and suffixes
NameFrom(v) ==
    NameOf(v[1],
           At(prefixes, DFloor(DMul(v[2], Num(Len(prefixes))))),
           At(middles, DFloor(DMul(v[3], Num(Len(middles))))),
           At(suffixes, DFloor(DMul(v[4], Num(Len(suffixes))))))

generateTerritoryName(seed) == NameFrom(NextValues(SeededRandom(seed), 4))

\* Set.has
Has(names, name) == \E i \in 1..Len(names) : names[i] = name

\* Array.push where the code has Set.add: a repeated name is kept
PushName(names, name) == Append(names, name)

\* Set.add: a Set keeps its members in insertion order, a member once
SetAdd(names, name) == IF Has(names, name) THEN names ELSE Append(names, name)

\* the body of the while loop of generateTerritoryNames: one attempt
LoopBody(names, seed) ==
    [names |-> SetAdd(names, generateTerritoryName(seed)), seed |-> DAdd(seed, Num(1))]

\* the while loop run from the state (names, seed) until it exits
RECURSIVE WhileNames(_, _, _)

WhileNamesAfter(body, count) == WhileNames(body.names, body.seed, count)

WhileNames(names, seed, count) ==
    IF Len(names) < count THEN WhileNamesAfter(LoopBody(names, seed), count)
    ELSE names

\* Array.from(names) once the loop has exited
generateTerritoryNames(count, baseSeed) == WhileNames(<< >>, baseSeed, count)

(***************************************************************************)
(* metadataGenerator.ts                                                   *)
(***************************************************************************)
cultures ==
    << "Gothic", "Norman", "Saxon", "Celtic", "Frankish", "Byzantine",
       "Slavic", "Norse", "Iberian", "Lombard", "Moorish", "Venetian" >>

\* Math.pow(v, 2)
Square(v) == DMul(v, v)

\* the chain with the coastal rule tried before the mountains rule
TerrainOfCoastalFirst(normalizedDist, normalizedEdgeDist, rand) ==
    IF /\ DLess(normalizedEdgeDist, Lit(2, 10))
       /\ DLess(normalizedDist, Lit(7, 10))
       /\ DLess(rand, Lit(7, 10))
    THEN "coastal"
    ELSE IF DLess(normalizedEdgeDist, Lit(15, 100)) /\ DLess(rand, Lit(6, 10))
    THEN "mountains"
    ELSE IF DLess(normalizedEdgeDist, Lit(3, 10)) /\ DLess(rand, Lit(5, 10))
    THEN "hills"
    ELSE IF DLess(normalizedDist, Lit(5, 10)) /\ DLess(rand, Lit(6, 10))
    THEN "plains"
    ELSE IF DLess(rand, Lit(25, 100))
    THEN "forest"
    ELSE IF DLess(Lit(6, 10), normalizedDist) /\ DLess(rand, Lit(3, 10))
    THEN "desert"
    ELSE "plains"

\* the rule chain with desert from normalizedDist 0.5 on
TerrainOfDesertNearer(normalizedDist, normalizedEdgeDist, rand) ==
    IF DLess(normalizedEdgeDist, Lit(15, 100)) /\ DLess(rand, Lit(6, 10))
    THEN "mountains"
    ELSE IF /\ DLess(normalizedEdgeDist, Lit(2, 10))
            /\ DLess(normalizedDist, Lit(7, 10))
            /\ DLess(rand, Lit(7, 10))
    THEN "coastal"
    ELSE IF DLess(normalizedEdgeDist, Lit(3, 10)) /\ DLess(rand, Lit(5, 10))
    THEN "hills"
    ELSE IF DLess(normalizedDist, Lit(5, 10)) /\ DLess(rand, Lit(6, 10))
    THEN "plains"
    ELSE IF DLess(rand, Lit(25, 100))
    THEN "forest"
    ELSE IF DLess(Lit(5, 10), normalizedDist) /\ DLess(rand, Lit(3, 10))
    THEN "desert"
    ELSE "plains"

\* the rule chain of generateTerrain
TerrainOf(normalizedDist, normalizedEdgeDist, rand) ==
    IF DLess(normalizedEdgeDist, Lit(15, 100)) /\ DLess(rand, Lit(6, 10))
    THEN "mountains"
    ELSE IF /\ DLess(normalizedEdgeDist, Lit(2, 10))
            /\ DLess(normalizedDist, Lit(7, 10))
            /\ DLess(rand, Lit(7, 10))
    THEN "coastal"
    ELSE IF DLess(normalizedEdgeDist, Lit(3, 10)) /\ DLess(rand, Lit(5, 10))
    THEN "hills"
    ELSE IF DLess(normalizedDist, Lit(5, 10)) /\ DLess(rand, Lit(6, 10))
    THEN "plains"
    ELSE IF DLess(rand, Lit(25, 100))
    THEN "forest"
    ELSE IF DLess(Lit(6, 10), normalizedDist) /\ DLess(rand, Lit(3, 10))
    THEN "desert"
    ELSE "plains"

\* Math.sqrt(Math.pow(a, 2) + Math.pow(b, 2))
Hypot(a, b) ==
    CHOOSE r \in {DSqrt(DAdd(p, q)) : p \in {Square(a)}, q \in {Square(b)}} : TRUE

\* the consts of generateTerrain, each evaluated where it is declared
NormalizedDist(x, y, width, height) ==
    CHOOSE r \in {DDiv(distFromCenter, maxDist) :
                      distFromCenter \in {Hypot(DSub(x, DDiv(width, Num(2))),
                                                DSub(y, DDiv(height, Num(2))))},
                      maxDist \in {Hypot(DDiv(width, Num(2)),
                                         DDiv(height, Num(2)))}} : TRUE

NormalizedEdgeDist(x, y, width, height) ==
    CHOOSE r \in {DDiv(distFromEdge, DMin(width, height)) :
                      distFromEdge \in {DMin(DMin(DMin(x, y), DSub(width, x)),
                                              DSub(height, y))}} : TRUE

generateTerrain(x, y, width, height, seed) ==
    CHOOSE t \in {TerrainOf(normalizedDist, normalizedEdgeDist, rand) :
                      normalizedDist \in {NormalizedDist(x, y, width, height)},
                      normalizedEdgeDist \in {NormalizedEdgeDist(x, y, width, height)},
                      rand \in {MetaNext(MetaSeededRandom(seed)).value}} : TRUE

\* three successive rng.nextInt calls: food, gold, military
ResourcesOf(v) == [food |-> v[1], gold |-> v[2], military |-> v[3]]

DrawResources(rng, food, gold, military) ==
    ResourcesOf(MetaNextInts(rng, <<food, gold, military>>))

generateResources(terrain, seed) ==
    LET rng == MetaSeededRandom(seed)
    IN  CASE terrain = "plains" -> DrawResources(rng, <<70, 95>>, <<40, 60>>, <<50, 70>>)
          [] terrain = "forest" -> DrawResources(rng, <<60, 80>>, <<30, 50>>, <<40, 60>>)
          [] terrain = "mountains" -> DrawResources(rng, <<20, 40>>, <<70, 95>>, <<60, 85>>)
          [] terrain = "desert" -> DrawResources(rng, <<15, 35>>, <<50, 80>>, <<30, 50>>)
          [] terrain = "hills" -> DrawResources(rng, <<50, 70>>, <<55, 75>>, <<55, 75>>)
          [] terrain = "coastal" -> DrawResources(rng, <<65, 85>>, <<60, 85>>, <<45, 65>>)
          [] OTHER -> [food |-> 50, gold |-> 50, military |-> 50]

\* the loop of calculateArea from index i (0-based) with the running sum
RECURSIVE AreaFrom(_, _, _)
AreaFrom(borderPoints, i, area) ==
    LET n == Len(borderPoints)
        j == (i + 1) % n
        a1 == DAdd(area, DMul(borderPoints[i + 1][1], borderPoints[j + 1][2]))
        a2 == DSub(a1, DMul(borderPoints[j + 1][1], borderPoints[i + 1][2]))
    IN  IF i >= n THEN area
        ELSE CHOOSE r \in {AreaFrom(borderPoints, i + 1, v) : v \in {a2}} : TRUE

\* half the signed sum, without the absolute value
SignedArea(borderPoints) == DDiv(AreaFrom(borderPoints, 0, DZero), Num(2))

calculateArea(borderPoints) == DAbs(DDiv(AreaFrom(borderPoints, 0, DZero), Num(2)))

\* the switch drawing from the generator after one next() call on it
BasePopulationNextDraw(rng, terrain) ==
    CASE terrain = "plains" -> MetaNextInt(MetaNext(rng).rng, 8000, 15000)
      [] terrain = "forest" -> MetaNextInt(MetaNext(rng).rng, 5000, 10000)
      [] terrain = "mountains" -> MetaNextInt(MetaNext(rng).rng, 2000, 5000)
      [] terrain = "desert" -> MetaNextInt(MetaNext(rng).rng, 1000, 4000)
      [] terrain = "hills" -> MetaNextInt(MetaNext(rng).rng, 6000, 12000)
      [] terrain = "coastal" -> MetaNextInt(MetaNext(rng).rng, 10000, 18000)
      [] OTHER -> [rng |-> rng, value |-> 5000]

\* the switch of generateMetadata: the draw of the base population
BasePopulation(rng, terrain) ==
    CASE terrain = "plains" -> MetaNextInt(rng, 8000, 15000)
      [] terrain = "forest" -> MetaNextInt(rng, 5000, 10000)
      [] terrain = "mountains" -> MetaNextInt(rng, 2000, 5000)
      [] terrain = "desert" -> MetaNextInt(rng, 1000, 4000)
      [] terrain = "hills" -> MetaNextInt(rng, 6000, 12000)
      [] terrain = "coastal" -> MetaNextInt(rng, 10000, 18000)
      [] OTHER -> [rng |-> rng, value |-> 5000]

\* the weights of gold and food exchanged
DevelopmentFoodFirst(resources) ==
    DRound(DAdd(DAdd(DMul(Num(resources.gold), Lit(3, 10)),
                     DMul(Num(resources.food), Lit(4, 10))),
                DMul(Num(resources.military), Lit(3, 10))))

\* Math.round(gold * 0.4 + food * 0.3 + military * 0.3)
Development(resources) ==
    DRound(DAdd(DAdd(DMul(Num(resources.gold), Lit(4, 10)),
                     DMul(Num(resources.food), Lit(3, 10))),
                DMul(Num(resources.military), Lit(3, 10))))

\* population, development, culture and the returned record; basePopulation
\* is the draw of the switch, with rng as that draw left it
MetadataWith(terrain, resources, basePopulation, areaMultiplier) ==
    [population |-> DRound(DMul(Num(basePopulation.value), areaMultiplier)),
     terrain |-> terrain,
     resources |-> resources,
     culture |-> At(cultures,
                    MetaNextInt(basePopulation.rng, 0, Len(cultures) - 1).value),
     development |-> Development(resources)]

\* resources, basePopulation, avgArea and areaMultiplier for the terrain
AreaMultiplier(width, height, area) ==
    CHOOSE r \in {DSqrt(DDiv(area, avgArea)) :
                      avgArea \in {DDiv(DMul(width, height), Num(30))}} : TRUE

MetadataOf(terrain, width, height, area, seed) ==
    CHOOSE r \in
        {MetadataWith(terrain, resources, basePopulation, areaMultiplier) :
            resources \in {generateResources(terrain, DAdd(seed, Num(1000)))},
            basePopulation \in {BasePopulation(MetaSeededRandom(seed), terrain)},
            areaMultiplier \in {AreaMultiplier(width, height, area)}} : TRUE

generateMetadata(x, y, width, height, area, seed) ==
    CHOOSE r \in {MetadataOf(terrain, width, height, area, seed) :
                      terrain \in {generateTerrain(x, y, width, height, seed)}} : TRUE

(***************************************************************************)
(* colorGenerator.ts                                                      *)
(***************************************************************************)
HexDigits ==
    << "0", "1", "2", "3", "4", "5", "6", "7",
       "8", "9", "a", "b", "c", "d", "e", "f" >>

\* Number.prototype.toString(16) of an integer
RECURSIVE ToString16(_)
ToString16(v) ==
    IF v < 0 THEN "-" \o ToString16(-v)
    ELSE IF v < 16 THEN HexDigits[v + 1]
    ELSE ToString16(v \div 16) \o HexDigits[(v % 16) + 1]

\* toString(16).padStart(2, '0'): a single digit gets a leading zero
PadStart2(v) == IF 0 <= v /\ v < 16 THEN "0" \o ToString16(v) ELSE ToString16(v)

\* the closure f of hslToHex, for hue h, the lightness l / 100 and a
HexChannelAt(k, l, a) ==
    PadStart2(DRound(DMul(Num(255),
        DSub(l, DMul(a, DMax(DMin(DMin(DSub(k, Num(3)), DSub(Num(9), k)), Num(1)),
                             Num(-1)))))))

HexChannel(n, h, l, a) ==
    CHOOSE c \in {HexChannelAt(k, l, a) :
                      k \in {DRem(DAdd(Num(n), DDiv(h, Num(30))), 12)}} : TRUE

\* the template string `#${f(0)}${f(8)}${f(4)}`
HexWith(h, l, a) ==
    "#" \o HexChannel(0, h, l, a) \o HexChannel(8, h, l, a) \o HexChannel(4, h, l, a)

\* a = s * Math.min(l, 1 - l) / 100, l being the lightness divided by 100
HexOf(h, s, l) ==
    CHOOSE c \in {HexWith(h, l, a) :
                      a \in {DDiv(DMul(s, DMin(l, DSub(Num(1), l))), Num(100))}} : TRUE

hslToHex(h, s, l) == CHOOSE c \in {HexOf(h, s, v) : v \in {DDiv(l, Num(100))}} : TRUE

\* a % b of integers: the remainder has the sign of the dividend
IntRem(a, b) == IF a < 0 THEN -((-a) % b) ELSE a % b

\* a switch whose plains hue varies over 60 degrees
TerrainHslWide(terrain, index, seed) ==
    IF terrain = "plains"
    THEN << Num(80 + IntRem(index * 15, 60)), DAdd(Num(45), DRem(seed, 15)),
            Num(50 + IntRem(index * 5, 15)) >>
    ELSE << Num(0), Num(50), Num(50) >>

\* the switch with every saturation varying by seed % 7
TerrainHslSeedMod7(terrain, index, seed) ==
    CASE terrain = "plains" ->
           << Num(80 + IntRem(index * 15, 40)), DAdd(Num(45), DRem(seed, 7)),
              Num(50 + IntRem(index * 5, 15)) >>
      [] terrain = "forest" ->
           << Num(120 + IntRem(index * 10, 30)), DAdd(Num(50), DRem(seed, 7)),
              Num(40 + IntRem(index * 5, 15)) >>
      [] terrain = "mountains" ->
           << Num(0), DAdd(Num(5), DRem(seed, 7)),
              Num(45 + IntRem(index * 10, 25)) >>
      [] terrain = "desert" ->
           << Num(40 + IntRem(index * 10, 30)), DAdd(Num(55), DRem(seed, 7)),
              Num(55 + IntRem(index * 5, 15)) >>
      [] terrain = "hills" ->
           << Num(25 + IntRem(index * 15, 35)), DAdd(Num(40), DRem(seed, 7)),
              Num(45 + IntRem(index * 5, 15)) >>
      [] terrain = "coastal" ->
           << Num(200 + IntRem(index * 10, 40)), DAdd(Num(50), DRem(seed, 7)),
              Num(50 + IntRem(index * 5, 15)) >>
      [] OTHER -> << Num(IntRem(index * 50, 360)), Num(50), Num(50) >>

\* the per-terrain switch of generateTerrainColor: <<baseHue, saturation,
\* lightness>>; index is an integer, seed a double
TerrainHsl(terrain, index, seed) ==
    CASE terrain = "plains" ->
           << Num(80 + IntRem(index * 15, 40)), DAdd(Num(45), DRem(seed, 15)),
              Num(50 + IntRem(index * 5, 15)) >>
      [] terrain = "forest" ->
           << Num(120 + IntRem(index * 10, 30)), DAdd(Num(50), DRem(seed, 20)),
              Num(40 + IntRem(index * 5, 15)) >>
      [] terrain = "mountains" ->
           << Num(0), DAdd(Num(5), DRem(seed, 10)),
              Num(45 + IntRem(index * 10, 25)) >>
      [] terrain = "desert" ->
           << Num(40 + IntRem(index * 10, 30)), DAdd(Num(55), DRem(seed, 15)),
              Num(55 + IntRem(index * 5, 15)) >>
      [] terrain = "hills" ->
           << Num(25 + IntRem(index * 15, 35)), DAdd(Num(40), DRem(seed, 20)),
              Num(45 + IntRem(index * 5, 15)) >>
      [] terrain = "coastal" ->
           << Num(200 + IntRem(index * 10, 40)), DAdd(Num(50), DRem(seed, 20)),
              Num(50 + IntRem(index * 5, 15)) >>
      [] OTHER -> << Num(IntRem(index * 50, 360)), Num(50), Num(50) >>

HexOfHsl(hsl) == hslToHex(hsl[1], hsl[2], hsl[3])

generateTerrainColor(terrain, index, seed) == HexOfHsl(TerrainHsl(terrain, index, seed))

(***************************************************************************)
(* The region partitioner (d3-delaunay: Delaunay.from(points),            *)
(* voronoi([0, 0, width, height]), cellPolygon(i)) is an external library *)
(* whose code is not part of the repository.  It is modelled from its     *)
(* contract: a deterministic function of the point list and the bounds    *)
(* that gives each point, by index, a simple polygon clipped to the       *)
(* rectangle or no cell, the polygons partitioning the rectangle.  The    *)
(* stand-in partitions the rectangle into the Voronoi cells of the        *)
(* points' projections on the x axis (vertical strips bounded by the      *)
(* midpoints between neighbouring abscissas).  Whether a polygon repeats  *)
(* its first vertex at its end is a parameter: the library is free there. *)
(* So is the set of indices for which it reports no cell (a degenerate    *)
(* point); the other points share the rectangle.                          *)
(***************************************************************************)
NoCell == << >>

\* the indices (1-based) of the points left of, right of point k
LeftOf(points, k, absent) ==
    {j \in 1..Len(points) : (j - 1) \notin absent /\ DLess(points[j][1], points[k][1])}

RightOf(points, k, absent) ==
    {j \in 1..Len(points) : (j - 1) \notin absent /\ DLess(points[k][1], points[j][1])}

\* the left end of the strip of point k: the midpoint to its nearest left
\* neighbour, or the rectangle's left edge; never left of that edge
StripLow(points, k, absent) ==
    LET S == LeftOf(points, k, absent)
        j == CHOOSE a \in S : \A b \in S : ~DLess(points[a][1], points[b][1])
    IN  IF S = {} THEN DZero
        ELSE DMax(DZero, DDiv(DAdd(points[j][1], points[k][1]), Num(2)))

StripHigh(points, width, k, absent) ==
    LET S == RightOf(points, k, absent)
        j == CHOOSE a \in S : \A b \in S : ~DLess(points[b][1], points[a][1])
    IN  IF S = {} THEN width
        ELSE DMin(width, DDiv(DAdd(points[k][1], points[j][1]), Num(2)))

\* voronoi.cellPolygon(i) for the 0-based index i: no cell for a point that
\* shares its abscissa with an earlier point, or whose strip misses the
\* rectangle
StripPolygon(lo, hi, height, closed) ==
    IF ~DLess(lo, hi) THEN NoCell
    ELSE << <<lo, DZero>>, <<hi, DZero>>, <<hi, height>>, <<lo, height>> >>
             \o (IF closed THEN << <<lo, DZero>> >> ELSE << >>)

cellPolygon(points, width, height, i, closed, absent) ==
    IF i \in absent THEN NoCell
    ELSE IF \E j \in 1..i : (j - 1) \notin absent /\ points[j][1] = points[i + 1][1]
    THEN NoCell
    ELSE StripPolygon(StripLow(points, i + 1, absent),
                      StripHigh(points, width, i + 1, absent), height, closed)

(***************************************************************************)
(* mapGenerator.ts                                                        *)
(***************************************************************************)
\* the default of generateRelaxedPoints' parameter relaxationIterations
DefaultRelaxationIterations == 2

\* the points pushed by the sampling loop, v holding its rng.next() values
\* in call order: x is drawn before y
PointsOf(v, width, height) ==
    [k \in 1..(Len(v) \div 2) |-> <<DMul(v[2 * k - 1], width), DMul(v[2 * k], height)>>]

\* the sampling loop: count points
InitialPoints(rng, count, width, height) ==
    PointsOf(MapNextValues(rng, 2 * count), width, height)

\* cx += x over the entries of cell from entry k on, for coordinate c
RECURSIVE SumCoord(_, _, _, _)
SumCoord(cell, c, k, sum) ==
    IF k > Len(cell) THEN sum
    ELSE SumCoord(cell, c, k + 1, DAdd(sum, cell[k][c]))

\* the mean of the entries of cell
Centroid(cell) ==
    << DDiv(SumCoord(cell, 1, 1, DZero), Num(Len(cell))),
       DDiv(SumCoord(cell, 2, 1, DZero), Num(Len(cell))) >>

\* what the relaxation pushes for a point and its cell
RelaxedPoint(cell, point) == IF cell # NoCell THEN Centroid(cell) ELSE point

\* one pass of the relaxation: newPoints for the indices from i on
RECURSIVE RelaxFrom(_, _, _, _, _, _, _, _)
RelaxFrom(points, count, width, height, closed, absent, i, newPoints) ==
    IF i >= count THEN newPoints
    ELSE CHOOSE r \in
             {RelaxFrom(points, count, width, height, closed, absent, i + 1,
                        Append(newPoints, point)) :
                 point \in {RelaxedPoint(cellPolygon(points, width, height, i,
                                                     closed, absent),
                                         points[i + 1])}} : TRUE

RECURSIVE Relax(_, _, _, _, _, _, _, _)
Relax(points, count, width, height, closed, absent, iteration, relaxationIterations) ==
    IF iteration >= relaxationIterations THEN points
    ELSE CHOOSE r \in
             {Relax(newPoints, count, width, height, closed, absent, iteration + 1,
                    relaxationIterations) :
                 newPoints \in {RelaxFrom(points, count, width, height, closed,
                                          absent, 0, << >>)}} : TRUE

generateRelaxedPoints(count, width, height, seed, relaxationIterations, closed, absent) ==
    Relax(InitialPoints(MapSeededRandom(seed), count, width, height),
          count, width, height, closed, absent, 0, relaxationIterations)

\* an absent optional argument
NoSeed == << >>

\* a destructuring that ignores the configured seed
ConfigSeedNow(config, now) == now

\* const { ..., seed = Date.now() } = config, now being what Date.now() returns
ConfigSeed(config, now) == IF config.seed = NoSeed THEN now ELSE config.seed[1]

\* cell.slice(0, -1)
SliceDropLast(cell) == SubSeq(cell, 1, Len(cell) - 1)

\* an object whose id and name are those of the next index
TerritoryOneBased(borderPoints, area, metadata, points, names, seed, i) ==
    [id |-> "territory-" \o ToString(i + 1),
     name |-> names[Min2(i + 2, Len(names))],
     color |-> generateTerrainColor(metadata.terrain, i, seed),
     centerX |-> points[i + 1][1],
     centerY |-> points[i + 1][2],
     borderPoints |-> borderPoints,
     area |-> area,
     metadata |-> metadata]

\* the object pushed by the loop body of generateMap
TerritoryWith(borderPoints, area, metadata, points, names, seed, i) ==
    [id |-> "territory-" \o ToString(i),
     name |-> names[i + 1],
     color |-> generateTerrainColor(metadata.terrain, i, seed),
     centerX |-> points[i + 1][1],
     centerY |-> points[i + 1][2],
     borderPoints |-> borderPoints,
     area |-> area,
     metadata |-> metadata]

\* metadata drawn with the base seed for every index
TerritoryOfAreaBaseSeed(borderPoints, area, points, names, width, height, seed, i) ==
    CHOOSE t \in
        {TerritoryWith(borderPoints, area, metadata, points, names, seed, i) :
            metadata \in {generateMetadata(points[i + 1][1], points[i + 1][2],
                                           width, height, area, seed)}} : TRUE

TerritoryOfArea(borderPoints, area, points, names, width, height, seed, i) ==
    CHOOSE t \in
        {TerritoryWith(borderPoints, area, metadata, points, names, seed, i) :
            metadata \in {generateMetadata(points[i + 1][1], points[i + 1][2],
                                           width, height, area,
                                           DAdd(seed, Num(i)))}} : TRUE

TerritoryOf(borderPoints, points, names, width, height, seed, i) ==
    CHOOSE t \in
        {TerritoryOfArea(borderPoints, area, points, names, width, height, seed, i) :
            area \in {calculateArea(borderPoints)}} : TRUE

\* the territory the loop body of generateMap builds for index i and its cell
BuildTerritory(cell, points, names, width, height, seed, i) ==
    TerritoryOf(SliceDropLast(cell), points, names, width, height, seed, i)

\* a loop body without the test of the cell
PushAlways(territories, cell, points, names, width, height, seed, i) ==
    Append(territories, BuildTerritory(cell, points, names, width, height, seed, i))

\* one iteration of the loop of generateMap: the territories after index i
PushTerritory(territories, cell, points, names, width, height, seed, i) ==
    IF cell # NoCell
    THEN Append(territories, BuildTerritory(cell, points, names, width, height, seed, i))
    ELSE territories

(***************************************************************************)
(* State.                                                                 *)
(***************************************************************************)
VARIABLES
    clock,        \* what Date.now() returns (a double, in milliseconds)
    closedCells,  \* whether the partitioner's polygons repeat their first vertex
    degenerate,   \* the indices for which the partitioner reports no cell
    instance,     \* a generator instance under direct use: class, seed field
    out,          \* what the last method call on the instance returned
    call,         \* the last direct call of an exported pure function
    gtn,          \* the frame of a direct generateTerritoryNames call
    gm,           \* the frame of generateMap
    peer,         \* the frame of a second generateMap invocation in progress
    returned,     \* the generateMap calls that returned: config, seed, result
    app,          \* the App component: territories state, file reads in progress
    canvas        \* the MapCanvas component: zoom and pan state

vars ==
    <<clock, closedCells, degenerate, instance, out, call, gtn, gm, peer, returned,
      app, canvas>>

(***************************************************************************)
(* Bounds and inputs.                                                     *)
(***************************************************************************)
MaxSeed == 8
MaxDraws == 3
MaxNameSeed == 10
MaxCount == 3
MaxAttempts == 8
MaxMetaSeed == 13
MaxTerritories == 2
MaxTicks == 1
MaxCalls == 2
MaxIndex == 8

\* 2^k as a double
Pow2D(k) == [neg |-> FALSE, m |-> <<1>>, e |-> -k]

\* Number.MAX_SAFE_INTEGER, 2^53 - 1
MaxSafeInteger == DSub(Pow2D(53), Num(1))

\* a wall-clock reading: 2026-10-29T00:00:00Z in milliseconds
StartClock == DMul(Num(1793232000), Num(1000))

RngSeeds == {Num(n) : n \in (-MaxSeed)..MaxSeed} \cup {StartClock, MaxSafeInteger}

RngClasses == {"names", "map", "meta"}

IntRanges == {<<0, 11>>, <<0, 44>>, <<70, 95>>, <<8000, 15000>>, <<5, 5>>}

NameSeeds ==
    {<<Num(n)>> : n \in (-MaxNameSeed)..MaxNameSeed}
        \cup {NoSeed, <<MaxSafeInteger>>, <<Pow2D(53)>>, <<Num(18)>>}

Terrains == {"plains", "forest", "mountains", "desert", "hills", "coastal"}

MetaSeeds ==
    {Num(n) : n \in (-MaxMetaSeed)..MaxMetaSeed} \cup {StartClock, Num(-1008)}

\* rectangles and, per rectangle, points in tenths of its sides
MetaSizes == {<<1200, 800>>, <<2000, 500>>}

MetaTenths == {<<0, 0>>, <<1, 1>>, <<1, 3>>, <<1, 5>>, <<2, 5>>, <<3, 5>>,
               <<5, 1>>, <<5, 2>>, <<5, 3>>, <<5, 5>>, <<7, 5>>, <<9, 5>>}

\* the points and areas generateMetadata is called with
MetadataTenths == {<<5, 1>>, <<1, 5>>, <<3, 5>>, <<5, 5>>}

MetaAreas == {Lit(1, 1000), Num(1), Num(32000)}

\* valid configurations, with and without a seed, and the malformed ones:
\* no territories, no width
Configs ==
    [width : {1200}, height : {800}, territoryCount : 1..MaxTerritories,
     seed : {NoSeed, <<Num(42)>>}]
        \cup {[width |-> 1200, height |-> 800, territoryCount |-> 0,
                seed |-> <<Num(42)>>],
               [width |-> 0, height |-> 800, territoryCount |-> MaxTerritories,
                seed |-> <<Num(42)>>]}

\* polygons calculateArea is called with directly, as lists of integer
\* coordinate pairs: a square in both orientations, a triangle, a concave
\* quadrilateral, and lists of 2, 1 and 0 points
PolygonCoordinates ==
    {<< <<0, 0>>, <<10, 0>>, <<10, 10>>, <<0, 10>> >>,
     << <<0, 0>>, <<0, 10>>, <<10, 10>>, <<10, 0>> >>,
     << <<0, 0>>, <<7, 0>>, <<0, 5>> >>,
     << <<0, 0>>, <<10, 0>>, <<2, 2>>, <<0, 10>> >>,
     << <<3, 4>>, <<5, 6>> >>,
     << <<3, 4>> >>,
     << >>}

PointOf(c) == <<Num(c[1]), Num(c[2])>>

Polygons == {[k \in 1..Len(c) |-> PointOf(c[k])] : c \in PolygonCoordinates}

\* the seeds generateTerrainColor is called with
ColorSeeds == {Num(0), Num(7), Num(42), Num(-8), StartClock}

\* the sets of indices the partitioner may report as degenerate
Degenerates == {{}} \cup {{i} : i \in 0..(MaxTerritories - 1)}

(***************************************************************************)
(* Initial states.                                                        *)
(***************************************************************************)
NoInstance == [cls |-> "none", seed |-> DZero, draws |-> 0]

NoOut == [op |-> "none"]

NoCall == [op |-> "none"]

GtnIdle ==
    [pc |-> "idle", count |-> 0, baseSeed |-> DZero, seed |-> DZero,
     names |-> << >>, tried |-> << >>, result |-> << >>]

\* the frame of a generateMap invocation: its position, its arguments and
\* locals; relaxed lists the point sets of generateRelaxedPoints (the
\* sampled one, then one per relaxation iteration), cells the polygons of
\* the final diagram by index, stages the stages passed so far
GmIdle ==
    [pc |-> "idle",
     config |-> [width |-> 0, height |-> 0, territoryCount |-> 0, seed |-> NoSeed],
     seed |-> DZero, relaxed |-> << >>, points |-> << >>, cells |-> << >>,
     names |-> << >>, i |-> 0, territories |-> << >>, stages |-> << >>]

(***************************************************************************)
(* The App component (App.tsx): its configuration, the territories state  *)
(* and JSON.parse as handleImport applies it to the text of a file.  A    *)
(* text is the sequence of the UTF-16 code units of a JavaScript string.  *)
(***************************************************************************)
AppWidth == 1200

AppHeight == 800

AppTerritoryCount == 20

\* the territoryCount state before the slider has moved
InitialTerritoryCount == 20

\* the range of the territory count slider
SliderMin == 5

SliderMax == 50

\* the configuration App passes to generateMap when Date.now() returns now
AppConfig(now) ==
    [width |-> AppWidth, height |-> AppHeight,
     territoryCount |-> AppTerritoryCount, seed |-> now]

\* the territories state holding what generateMap(config) returned
GeneratedTerritories(config) == [t |-> "generateMap", config |-> config]

\* the printable ASCII characters in the order of their code units: from
\* the space (32) to the underscore (95), and from a (97) to the tilde (126)
PrintableLow ==
    << " ", "!", "\"", "#", "$", "%", "&", "'", "(", ")", "*", "+", ",", "-", ".",
       "/", "0", "1", "2", "3", "4", "5", "6", "7", "8", "9", ":", ";", "<", "=",
       ">", "?", "@", "A", "B", "C", "D", "E", "F", "G", "H", "I", "J", "K", "L",
       "M", "N", "O", "P", "Q", "R", "S", "T", "U", "V", "W", "X", "Y", "Z", "[",
       "\\", "]", "^", "_" >>

PrintableHigh ==
    << "a", "b", "c", "d", "e", "f", "g", "h", "i", "j", "k", "l", "m", "n", "o",
       "p", "q", "r", "s", "t", "u", "v", "w", "x", "y", "z", "{", "|", "}", "~" >>

\* the code unit of a printable ASCII character
Code(c) ==
    IF \E i \in 1..Len(PrintableLow) : PrintableLow[i] = c
    THEN 31 + (CHOOSE i \in 1..Len(PrintableLow) : PrintableLow[i] = c)
    ELSE 96 + (CHOOSE i \in 1..Len(PrintableHigh) : PrintableHigh[i] = c)

\* a string of printable ASCII characters as the sequence of its code units
Text(chars) == [i \in 1..Len(chars) |-> Code(chars[i])]

\* space, tab, line feed, carriage return
Whitespace == {32, 9, 10, 13}

IsDigit(c) == 48 <= c /\ c <= 57

DigitValue(c) == c - 48

\* the value of a hexadecimal digit, -1 for any other code unit
HexValue(c) ==
    IF IsDigit(c) THEN c - 48
    ELSE IF 97 <= c /\ c <= 102 THEN c - 87
    ELSE IF 65 <= c /\ c <= 70 THEN c - 55
    ELSE -1

\* the code unit at position i of a text, -1 past its end
CharAt(text, i) == IF i \in 1..Len(text) THEN text[i] ELSE -1

RECURSIVE SkipWhitespace(_, _)
SkipWhitespace(text, i) ==
    IF CharAt(text, i) \in Whitespace THEN SkipWhitespace(text, i + 1) ELSE i

\* a SyntaxError at position i
Failure(i) == [ok |-> FALSE, value |-> [t |-> "undefined"], at |-> i]

\* a value read, the text continuing at position i
Success(v, i) == [ok |-> TRUE, value |-> v, at |-> i]

JsonNull == [t |-> "null"]

JsonBoolean(b) == [t |-> "boolean", b |-> b]

\* a number: a double, a zero with its sign, or an infinity
JsonNumber(n) == [t |-> "number", n |-> n]

\* a string as the sequence of its code units
JsonString(s) == [t |-> "string", s |-> s]

JsonArray(items) == [t |-> "array", items |-> items]

\* an object as the map from its property names to their values
JsonObject(members) == [t |-> "object", members |-> members]

NoMembers == [k \in {} |-> JsonNull]

\* a later member of the same name replaces the earlier one
SetMember(members, key, v) ==
    [k \in DOMAIN members \cup {key} |-> IF k = key THEN v ELSE members[k]]

\* one of the literal names null, true, false
ParseWord(text, i, word, v) ==
    IF i + Len(word) - 1 <= Len(text) /\ SubSeq(text, i, i + Len(word) - 1) = word
    THEN Success(v, i + Len(word))
    ELSE Failure(i)

\* 10^k as a natural number
RECURSIVE Pow10(_)
Pow10(k) ==
    IF k = 0 THEN <<1>>
    ELSE IF k % 2 = 1 THEN BMulSmall(Pow10(k - 1), 10)
    ELSE CHOOSE p \in {BMul(h, h) : h \in {Pow10(k \div 2)}} : TRUE

\* +0 or -0
SignedZero(neg) == [neg |-> neg, m |-> << >>, e |-> 0]

\* Infinity or -Infinity
Infinite(neg) == [neg |-> neg, inf |-> TRUE]

\* the double nearest to a value with the exponent range of doubles left
\* aside: Infinity from 2^1024 on
Ranged(d) == IF DLess(DAbs(d), Pow2D(1024)) THEN d ELSE Infinite(d.neg)

\* the multiple of 2^-1074 nearest to m / t, x being m * 2^1075 / t
SubnormalOf(neg, x, n) ==
    IF BIsOdd(x.q) /\ (x.r # << >> \/ BIsOdd(n))
    THEN Canon(neg, BAdd(n, <<1>>), 1074)
    ELSE IF n = << >> THEN SignedZero(neg)
    ELSE Canon(neg, n, 1074)

Subnormal(neg, x) == SubnormalOf(neg, x, BShr(x.q, 1))

\* the double nearest to m / t, d being m * 2^s / t with at least 55 bits
QuotientOf(neg, m, t, s, d) ==
    IF DLess(DAbs(Round(neg, d.q, s, d.r # << >>)), Pow2D(-1022))
    THEN Subnormal(neg, BDivMod(BShl(m, 1075), t))
    ELSE Ranged(Round(neg, d.q, s, d.r # << >>))

QuotientAt(neg, m, t, s) ==
    CHOOSE v \in {QuotientOf(neg, m, t, s, d) : d \in {BDivMod(BShl(m, s), t)}} : TRUE

Quotient(neg, m, t) == QuotientAt(neg, m, t, Max2(0, 56 + BBitLen(t) - BBitLen(m)))

\* the double nearest to (-1)^neg * m * 10^e, as the number of a JSON text
\* is converted
NumberValue(neg, m, e) ==
    IF m = << >> THEN SignedZero(neg)
    ELSE IF e > 400 THEN Infinite(neg)
    ELSE IF e >= 0 THEN Ranged(Round(neg, BMul(m, Pow10(e)), 0, FALSE))
    ELSE IF -e > 400 + BBitLen(m) THEN SignedZero(neg)
    ELSE Quotient(neg, m, Pow10(-e))

\* the position after the digits that start at position i
DigitsEnd(text, i) ==
    CHOOSE j \in i..(Len(text) + 1) :
        /\ ~IsDigit(CharAt(text, j))
        /\ \A k \in i..(j - 1) : IsDigit(CharAt(text, k))

\* the natural number written by the digits at positions i to j - 1
RECURSIVE DigitsValue(_, _, _)
DigitsValue(text, i, j) ==
    IF j <= i THEN << >>
    ELSE IF j = i + 1 THEN BFromInt(DigitValue(text[i]))
    ELSE BAdd(BMul(DigitsValue(text, i, (i + j) \div 2), Pow10(j - (i + j) \div 2)),
              DigitsValue(text, (i + j) \div 2, j))

\* the digits from position i on, appended to the digits of the natural
\* number n
ParseDigits(text, i, n) ==
    Success(BAdd(BMul(n, Pow10(DigitsEnd(text, i) - i)),
                 DigitsValue(text, i, DigitsEnd(text, i))),
            DigitsEnd(text, i))

\* the digits of an exponent; from 100000 on the value no longer matters
RECURSIVE ParseExponentDigits(_, _, _)
ParseExponentDigits(text, i, n) ==
    IF IsDigit(CharAt(text, i))
    THEN ParseExponentDigits(text, i + 1,
                             Min2(n * 10 + DigitValue(CharAt(text, i)), 100000))
    ELSE Success(n, i)

\* the exponent part from position i on, if there is one: e or E, a sign,
\* digits
ParseExponent(text, i) ==
    LET signed == CharAt(text, i + 1) \in {43, 45}
        j == IF signed THEN i + 2 ELSE i + 1
        digits == ParseExponentDigits(text, j, 0)
    IN  IF CharAt(text, i) \notin {101, 69} THEN Success(0, i)
        ELSE IF ~IsDigit(CharAt(text, j)) THEN Failure(j)
        ELSE IF CharAt(text, i + 1) = 45 THEN Success(-digits.value, digits.at)
        ELSE digits

\* the fraction part from position i on, if there is one, whole being the
\* digits before it: the digits read as one natural number
ParseFraction(text, i, whole) ==
    IF CharAt(text, i) # 46 THEN Success(whole, i)
    ELSE IF ~IsDigit(CharAt(text, i + 1)) THEN Failure(i + 1)
    ELSE ParseDigits(text, i + 1, whole)

\* the integer part: 0, or digits not starting with 0
ParseInteger(text, i) ==
    IF CharAt(text, i) = 48 THEN Success(<< >>, i + 1)
    ELSE IF IsDigit(CharAt(text, i)) THEN ParseDigits(text, i, << >>)
    ELSE Failure(i)

\* a number: an optional minus, the integer part, an optional fraction and
\* an optional exponent
ParseNumber(text, i) ==
    LET neg == CharAt(text, i) = 45
        whole == ParseInteger(text, IF neg THEN i + 1 ELSE i)
        digits == ParseFraction(text, whole.at, whole.value)
        places == IF digits.at = whole.at THEN 0 ELSE digits.at - whole.at - 1
        exponent == ParseExponent(text, digits.at)
    IN  IF ~whole.ok THEN whole
        ELSE IF ~digits.ok THEN digits
        ELSE IF ~exponent.ok THEN exponent
        ELSE Success(JsonNumber(NumberValue(neg, digits.value,
                                            exponent.value - places)),
                     exponent.at)

\* the code unit of \uXXXX, the four digits from position i on; -1 if one
\* of them is not a hexadecimal digit
Hex4(text, i) ==
    IF \E k \in 0..3 : HexValue(CharAt(text, i + k)) < 0 THEN -1
    ELSE ((HexValue(CharAt(text, i)) * 16 + HexValue(CharAt(text, i + 1))) * 16
              + HexValue(CharAt(text, i + 2))) * 16 + HexValue(CharAt(text, i + 3))

\* the code unit of the escape sequence whose character after the
\* backslash is c; -1 if there is no such escape
Escaped(c) ==
    CASE c \in {34, 92, 47} -> c
      [] c = 98 -> 8
      [] c = 102 -> 12
      [] c = 110 -> 10
      [] c = 114 -> 13
      [] c = 116 -> 9
      [] OTHER -> -1

\* the code units of a string from position i up to its closing quote; a
\* control character (below 32) is not allowed in a string
RECURSIVE ParseChars(_, _, _)
ParseChars(text, i, s) ==
    LET c == CharAt(text, i)
        e == CharAt(text, i + 1)
    IN  IF c = 34 THEN Success(s, i + 1)
        ELSE IF c < 32 THEN Failure(i)
        ELSE IF c # 92 THEN ParseChars(text, i + 1, Append(s, c))
        ELSE IF e = 117
        THEN IF Hex4(text, i + 2) < 0 THEN Failure(i + 2)
             ELSE ParseChars(text, i + 6, Append(s, Hex4(text, i + 2)))
        ELSE IF Escaped(e) < 0 THEN Failure(i + 1)
        ELSE ParseChars(text, i + 2, Append(s, Escaped(e)))

ParseString(text, i) ==
    LET s == ParseChars(text, i + 1, << >>)
    IN  IF s.ok THEN Success(JsonString(s.value), s.at) ELSE s

RECURSIVE ParseValue(_, _)
RECURSIVE ParseElements(_, _, _)
RECURSIVE ParseMembers(_, _, _)

\* the elements of an array from position i on, items being those read
ParseElements(text, i, items) ==
    LET v == ParseValue(text, SkipWhitespace(text, i))
        j == SkipWhitespace(text, v.at)
    IN  IF ~v.ok THEN v
        ELSE IF CharAt(text, j) = 44
        THEN ParseElements(text, j + 1, Append(items, v.value))
        ELSE IF CharAt(text, j) = 93
        THEN Success(JsonArray(Append(items, v.value)), j + 1)
        ELSE Failure(j)

\* the members of an object from position i on, members being those read
ParseMembers(text, i, members) ==
    LET k == SkipWhitespace(text, i)
        key == ParseString(text, k)
        c == SkipWhitespace(text, key.at)
        v == ParseValue(text, SkipWhitespace(text, c + 1))
        j == SkipWhitespace(text, v.at)
    IN  IF CharAt(text, k) # 34 THEN Failure(k)
        ELSE IF ~key.ok THEN key
        ELSE IF CharAt(text, c) # 58 THEN Failure(c)
        ELSE IF ~v.ok THEN v
        ELSE IF CharAt(text, j) = 44
        THEN ParseMembers(text, j + 1, SetMember(members, key.value.s, v.value))
        ELSE IF CharAt(text, j) = 125
        THEN Success(JsonObject(SetMember(members, key.value.s, v.value)), j + 1)
        ELSE Failure(j)

\* a value starting at position i: [ is 91, { is 123, " is 34, - is 45
ParseValue(text, i) ==
    LET c == CharAt(text, i)
        j == SkipWhitespace(text, i + 1)
    IN  CASE c = 91 ->
               IF CharAt(text, j) = 93 THEN Success(JsonArray(<< >>), j + 1)
               ELSE ParseElements(text, j, << >>)
          [] c = 123 ->
               IF CharAt(text, j) = 125 THEN Success(JsonObject(NoMembers), j + 1)
               ELSE ParseMembers(text, j, NoMembers)
          [] c = 34 -> ParseString(text, i)
          [] c = 110 -> ParseWord(text, i, Text(<<"n", "u", "l", "l">>), JsonNull)
          [] c = 116 ->
               ParseWord(text, i, Text(<<"t", "r", "u", "e">>), JsonBoolean(TRUE))
          [] c = 102 ->
               ParseWord(text, i, Text(<<"f", "a", "l", "s", "e">>),
                         JsonBoolean(FALSE))
          [] c = 45 \/ IsDigit(c) -> ParseNumber(text, i)
          [] OTHER -> Failure(i)

\* JSON.parse(text): ok is FALSE where it throws a SyntaxError
JSONParse(text) ==
    LET v == ParseValue(text, SkipWhitespace(text, 1))
    IN  IF v.ok /\ SkipWhitespace(text, v.at) = Len(text) + 1
        THEN [ok |-> TRUE, value |-> v.value]
        ELSE [ok |-> FALSE, value |-> [t |-> "undefined"]]

\* no FileReader has fired its onload yet
NoLoad == [text |-> << >>, loaded |-> FALSE]

\* App after its first render: territoryCount is the state the slider sets,
\* reading are the texts of the FileReaders
\* started and not yet loaded, alerts counts the alert() calls, last records
\* the latest onload (its text, the territories and alerts it found)
AppStart(now) ==
    [territories |-> GeneratedTerritories(AppConfig(now)),
     territoryCount |-> InitialTerritoryCount,
     reading |-> << >>, alerts |-> 0, imports |-> 0, last |-> NoLoad]

(***************************************************************************)
(* The MapCanvas component (MapCanvas.tsx): its zoom, pan, drag and hover  *)
(* state, with the numbers of button clicks, wheel events and mouse events *)
(* handled so far.                                                         *)
(***************************************************************************)
\* null, for a state that holds no object
Null == [t |-> "null"]

CanvasStart ==
    [zoom |-> Num(1), pan |-> <<DZero, DZero>>,
     isPanning |-> FALSE, lastPanPos |-> Null,
     mousePos |-> Null, hoveredTerritory |-> Null,
     clicks |-> 0, wheels |-> 0, moves |-> 0]

Init ==
    /\ clock = StartClock
    /\ closedCells \in BOOLEAN
    /\ degenerate \in Degenerates
    /\ instance = NoInstance
    /\ out = NoOut
    /\ call = NoCall
    /\ gtn = GtnIdle
    /\ gm = GmIdle
    /\ peer = GmIdle
    /\ returned = << >>
    /\ app = AppStart(clock)
    /\ canvas = CanvasStart

\* direct calls do not reach the partitioner
InitDirect == Init /\ closedCells = TRUE /\ degenerate = {}

(***************************************************************************)
(* Direct use of a generator: new SeededRandom(seed), next(), nextInt().  *)
(***************************************************************************)
NextOf(cls, r) ==
    CASE cls = "names" -> next(r)
      [] cls = "map" -> MapNext(r)
      [] cls = "meta" -> MetaNext(r)

NextIntOf(cls, r, min, max) ==
    CASE cls = "names" -> nextInt(r, min, max)
      [] cls = "meta" -> MetaNextInt(r, min, max)

Construct(cls, seed) ==
    /\ instance.cls = "none"
    /\ instance' = [cls |-> cls, seed |-> seed, draws |-> 0]
    /\ UNCHANGED <<clock, closedCells, degenerate, out, call, gtn, gm, peer, returned,
                 app, canvas>>

CallNext ==
    /\ instance.cls # "none"
    /\ instance.draws < MaxDraws
    /\ LET d == NextOf(instance.cls, [seed |-> instance.seed])
       IN  /\ instance' = [instance EXCEPT !.seed = d.rng.seed, !.draws = @ + 1]
           /\ out' = [op |-> "next", value |-> d.value]
    /\ UNCHANGED <<clock, closedCells, degenerate, call, gtn, gm, peer, returned,
                 app, canvas>>

\* the classes that declare nextInt: mapGenerator's class has next only
HasNextInt(cls) == cls \in {"names", "meta"}

CallNextInt(min, max) ==
    /\ HasNextInt(instance.cls)
    /\ instance.draws < MaxDraws
    /\ LET d == NextIntOf(instance.cls, [seed |-> instance.seed], min, max)
       IN  /\ instance' = [instance EXCEPT !.seed = d.rng.seed, !.draws = @ + 1]
           /\ out' = [op |-> "nextInt", min |-> min, max |-> max, value |-> d.value]
    /\ UNCHANGED <<clock, closedCells, degenerate, call, gtn, gm, peer, returned,
                 app, canvas>>

NextRng ==
    \/ \E cls \in RngClasses, seed \in RngSeeds : Construct(cls, seed)
    \/ CallNext
    \/ \E r \in IntRanges : CallNextInt(r[1], r[2])

SpecRng == InitDirect /\ [][NextRng]_vars

\* C2: for every integer seed, negative seeds included, and after any number
\* of draws, next() returns r with 0 <= r < 1, and the seed field after every
\* update is an integer in 0..233279
C2_NextInUnitInterval ==
    /\ out.op = "next" => ~out.value.neg /\ DLess(out.value, Num(1))
    /\ instance.draws > 0 =>
           /\ IsInteger(instance.seed)
           /\ ~instance.seed.neg
           /\ DLess(instance.seed, Num(Modulus))

\* C3: for every integer seed, after any number of draws and for min <= max,
\* nextInt(min, max) returns an integer v with min <= v <= max
C3_NextIntInRange ==
    out.op = "nextInt" => out.min <= out.value /\ out.value <= out.max

(***************************************************************************)
(* generateTerritoryNames(count, baseSeed), one loop iteration per step.  *)
(* tried lists the seeds of the attempts made, in order.                  *)
(***************************************************************************)
\* entry: an absent baseSeed defaults to Date.now(); names = new Set(),
\* seed = baseSeed
NamesCall(count, baseSeed) ==
    /\ gtn.pc = "idle"
    /\ gtn' = [pc |-> "loop", count |-> count,
               baseSeed |-> IF baseSeed = NoSeed THEN clock ELSE baseSeed[1],
               seed |-> IF baseSeed = NoSeed THEN clock ELSE baseSeed[1],
               names |-> << >>, tried |-> << >>, result |-> << >>]
    /\ UNCHANGED <<clock, closedCells, degenerate, instance, out, call, gm, peer, returned,
                 app, canvas>>

AfterAttempt(frame, body) ==
    [frame EXCEPT !.names = body.names, !.seed = body.seed,
                  !.tried = Append(@, frame.seed)]

\* one iteration of the while loop
NamesAttempt ==
    /\ gtn.pc = "loop"
    /\ Len(gtn.names) < gtn.count
    /\ Len(gtn.tried) < MaxAttempts
    /\ gtn' = AfterAttempt(gtn, LoopBody(gtn.names, gtn.seed))
    /\ UNCHANGED <<clock, closedCells, degenerate, instance, out, call, gm, peer, returned,
                 app, canvas>>

\* the loop exit and return Array.from(names)
NamesReturn ==
    /\ gtn.pc = "loop"
    /\ ~(Len(gtn.names) < gtn.count)
    /\ gtn' = [gtn EXCEPT !.pc = "returned", !.result = gtn.names]
    /\ UNCHANGED <<clock, closedCells, degenerate, instance, out, call, gm, peer, returned,
                 app, canvas>>

NextNames ==
    \/ \E count \in 0..MaxCount, baseSeed \in NameSeeds : NamesCall(count, baseSeed)
    \/ NamesAttempt
    \/ NamesReturn

SpecNames == InitDirect /\ [][NextNames]_vars

\* the names of the attempts made so far, in order
TriedNames == [k \in 1..Len(gtn.tried) |-> generateTerritoryName(gtn.tried[k])]

\* the entries of a sequence in the order of their first occurrence
RECURSIVE FirstOccurrences(_)
FirstOccurrences(seq) ==
    IF seq = << >> THEN << >>
    ELSE LET init == FirstOccurrences(SubSeq(seq, 1, Len(seq) - 1))
             last == seq[Len(seq)]
         IN  IF \E k \in 1..Len(init) : init[k] = last THEN init
             ELSE Append(init, last)

\* C4: whenever generateTerritoryNames(count, baseSeed) returns, the result
\* has exactly count entries, pairwise distinct, in the order in which each
\* name was first produced by the attempts at baseSeed, baseSeed+1, ...
C4_DistinctNamesInOrder ==
    gtn.pc = "returned" =>
        /\ Len(gtn.result) = gtn.count
        /\ \A a, b \in 1..Len(gtn.result) : a # b => gtn.result[a] # gtn.result[b]
        /\ \A k \in 1..Len(gtn.tried) : gtn.tried[k] = DAdd(gtn.baseSeed, Num(k - 1))
        /\ gtn.result = FirstOccurrences(TriedNames)

\* a call that returned several names after an attempt repeated a name
C4_Witness ==
    /\ gtn.pc = "returned"
    /\ gtn.count > 1
    /\ Len(gtn.tried) > gtn.count

\* C5: generateTerritoryNames terminates for every count: an iteration that
\* is still needed never leaves names and seed as they were (a loop state
\* that an iteration maps to itself repeats forever), the loop stopping
\* after a bounded number of attempts
C5_EveryAttemptProgresses ==
    (gtn.pc = "loop" /\ Len(gtn.names) < gtn.count) =>
        LoopBody(gtn.names, gtn.seed) # [names |-> gtn.names, seed |-> gtn.seed]

(***************************************************************************)
(* Direct calls of the exported functions of metadataGenerator.ts, one    *)
(* call per behaviour: the functions are pure.                            *)
(***************************************************************************)
CallGenerateTerrain(x, y, width, height, seed) ==
    /\ call.op = "none"
    /\ call' = [op |-> "generateTerrain", x |-> x, y |-> y,
                width |-> width, height |-> height, seed |-> seed,
                result |-> generateTerrain(Num(x), Num(y), Num(width), Num(height),
                                           seed)]
    /\ UNCHANGED <<clock, closedCells, degenerate, instance, out, gtn, gm, peer, returned,
                 app, canvas>>

CallGenerateResources(terrain, seed) ==
    /\ call.op = "none"
    /\ call' = [op |-> "generateResources", terrain |-> terrain, seed |-> seed,
                result |-> generateResources(terrain, seed)]
    /\ UNCHANGED <<clock, closedCells, degenerate, instance, out, gtn, gm, peer, returned,
                 app, canvas>>

CallGenerateMetadata(x, y, width, height, area, seed) ==
    /\ call.op = "none"
    /\ call' = [op |-> "generateMetadata", x |-> x, y |-> y,
                width |-> width, height |-> height, area |-> area, seed |-> seed,
                result |-> generateMetadata(Num(x), Num(y), Num(width), Num(height),
                                            area, seed)]
    /\ UNCHANGED <<clock, closedCells, degenerate, instance, out, gtn, gm, peer, returned,
                 app, canvas>>

NextMeta ==
    \/ \E size \in MetaSizes, t \in MetaTenths, seed \in MetaSeeds :
          CallGenerateTerrain((size[1] * t[1]) \div 10, (size[2] * t[2]) \div 10,
                              size[1], size[2], seed)
    \/ \E terrain \in Terrains, seed \in MetaSeeds :
          CallGenerateResources(terrain, seed)
    \/ \E size \in MetaSizes, t \in MetadataTenths, area \in MetaAreas,
          seed \in MetaSeeds :
          CallGenerateMetadata((size[1] * t[1]) \div 10, (size[2] * t[2]) \div 10,
                               size[1], size[2], area, seed)

SpecMeta == InitDirect /\ [][NextMeta]_vars

\* the table of resource ranges per terrain: <<food, gold, military>>, each
\* <<low, high>>
ResourceTable(terrain) ==
    CASE terrain = "plains" -> << <<70, 95>>, <<40, 60>>, <<50, 70>> >>
      [] terrain = "forest" -> << <<60, 80>>, <<30, 50>>, <<40, 60>> >>
      [] terrain = "mountains" -> << <<20, 40>>, <<70, 95>>, <<60, 85>> >>
      [] terrain = "desert" -> << <<15, 35>>, <<50, 80>>, <<30, 50>> >>
      [] terrain = "hills" -> << <<50, 70>>, <<55, 75>>, <<55, 75>> >>
      [] terrain = "coastal" -> << <<65, 85>>, <<60, 85>>, <<45, 65>> >>

Within(v, range) == range[1] <= v /\ v <= range[2]

\* the three values each inside the terrain's range of the table
InTable(resources, terrain) ==
    /\ Within(resources.food, ResourceTable(terrain)[1])
    /\ Within(resources.gold, ResourceTable(terrain)[2])
    /\ Within(resources.military, ResourceTable(terrain)[3])
    /\ \A v \in {resources.food, resources.gold, resources.military} :
          Within(v, <<1, 100>>)

\* C7: for every terrain and every seed, generateResources returns food,
\* gold and military each inside the terrain's range of the table, hence
\* each an integer in [1, 100]; so do the resources of generateMetadata
C7_ResourcesInRange ==
    /\ call.op = "generateResources" => InTable(call.result, call.terrain)
    /\ call.op = "generateMetadata" =>
           InTable(call.result.resources, call.result.terrain)

\* ten times the weighted sum gold * 0.4 + food * 0.3 + military * 0.3
TenfoldWeighted(resources) ==
    4 * resources.gold + 3 * resources.food + 3 * resources.military

\* C8: development equals round(gold * 0.4 + food * 0.3 + military * 0.3) of
\* the territory's own resources: the double the expression evaluates to,
\* rounded, which is the integer nearest to the exact weighted sum (either
\* neighbour when the sum lies halfway); no random draw is consumed for it
\* (culture is the draw that follows the base population's); and it is an
\* integer in [0, 100]
C8_DevelopmentDerived ==
    call.op = "generateMetadata" =>
        /\ call.result.development =
              DRound(DAdd(DAdd(DMul(Num(call.result.resources.gold), Lit(4, 10)),
                               DMul(Num(call.result.resources.food), Lit(3, 10))),
                          DMul(Num(call.result.resources.military), Lit(3, 10))))
        /\ TenfoldWeighted(call.result.resources) % 10 # 5 =>
              call.result.development =
                  (TenfoldWeighted(call.result.resources) + 5) \div 10
        /\ TenfoldWeighted(call.result.resources) % 10 = 5 =>
              call.result.development \in
                  {(TenfoldWeighted(call.result.resources) - 5) \div 10,
                   (TenfoldWeighted(call.result.resources) + 5) \div 10}
        /\ call.result.culture =
              At(cultures,
                 MetaNextInt(MetaNext(MetaSeededRandom(call.seed)).rng,
                             0, Len(cultures) - 1).value)
        /\ Within(call.result.development, <<0, 100>>)

\* a generateMetadata call whose gold and food differ and whose weighted sum
\* lies halfway between two integers
C8_Witness ==
    /\ call.op = "generateMetadata"
    /\ call.result.resources.gold # call.result.resources.food
    /\ TenfoldWeighted(call.result.resources) % 10 = 5

\* C9: population = round(basePopulation * sqrt(area / (width * height / 30)))
\* is an integer strictly greater than 0 for every cell area, very small
\* cells included
C9_PopulationPositive ==
    call.op = "generateMetadata" => call.result.population > 0

\* the position of a generateTerrain call in exact integers: the distance to
\* the nearest edge and the shorter side (e = edge / side), four times the
\* squared distance to the centre and four times the squared half-diagonal
\* (c * c = centre / diagonal), and the generator's state after the one draw
\* (r = state / 233280)
EdgeOf(c) == Min2(Min2(Min2(c.x, c.y), c.width - c.x), c.height - c.y)

SideOf(c) == Min2(c.width, c.height)

CentreOf(c) == (2 * c.x - c.width) * (2 * c.x - c.width)
                   + (2 * c.y - c.height) * (2 * c.y - c.height)

DiagonalOf(c) == c.width * c.width + c.height * c.height

StateOf(c) == IntOf(MetaNext(MetaSeededRandom(c.seed)).rng.seed)

\* the first rule of the ordered chain that matches
ChainTerrain(edge, side, centre, diagonal, state) ==
    IF 100 * edge < 15 * side /\ 10 * state < 6 * Modulus THEN "mountains"
    ELSE IF /\ 10 * edge < 2 * side
            /\ 100 * centre < 49 * diagonal
            /\ 10 * state < 7 * Modulus THEN "coastal"
    ELSE IF 10 * edge < 3 * side /\ 2 * state < Modulus THEN "hills"
    ELSE IF 4 * centre < diagonal /\ 10 * state < 6 * Modulus THEN "plains"
    ELSE IF 4 * state < Modulus THEN "forest"
    ELSE IF 100 * centre > 36 * diagonal /\ 10 * state < 3 * Modulus THEN "desert"
    ELSE "plains"

\* C10: generateTerrain returns the terrain of the first matching rule of
\* the chain mountains (e < 0.15, r < 0.6), coastal (e < 0.2, c < 0.7,
\* r < 0.7), hills (e < 0.3, r < 0.5), plains (c < 0.5, r < 0.6), forest
\* (r < 0.25), desert (c > 0.6, r < 0.3), else plains, for the one draw r,
\* the normalised edge distance e and the normalised centre distance c; so
\* e < 0.15 and r < 0.6 give mountains whatever c is
C10_TerrainRuleChain ==
    call.op = "generateTerrain" =>
        /\ call.result = ChainTerrain(EdgeOf(call), SideOf(call), CentreOf(call),
                                      DiagonalOf(call), StateOf(call))
        /\ (100 * EdgeOf(call) < 15 * SideOf(call)
                /\ 10 * StateOf(call) < 6 * Modulus) => call.result = "mountains"

\* a generateTerrain call that the mountains rule and the coastal rule both
\* match, answered by the mountains rule
C10_Witness ==
    /\ call.op = "generateTerrain"
    /\ 100 * EdgeOf(call) < 15 * SideOf(call)
    /\ 100 * CentreOf(call) < 49 * DiagonalOf(call)
    /\ StateOf(call) >= 0
    /\ 10 * StateOf(call) < 6 * Modulus
    /\ call.result = "mountains"

(***************************************************************************)
(* generateMap and regenerateMap, one stage of generateMap per step.  A   *)
(* stage is a function of the invocation's own frame: every generator is  *)
(* constructed inside the call that draws from it, and the module keeps   *)
(* no state between calls.                                                *)
(***************************************************************************)
\* locals whose points are a variable of the module, written by either call
SharedPoints(own, other) ==
    IF other.points # << >> THEN [own EXCEPT !.points = other.points] ELSE own

\* what a stage of an invocation reads: its own frame, never another's
Locals(own, other) == own

\* entry of generateMap: the destructuring of config with the seed default
Called(config, now) ==
    [GmIdle EXCEPT !.pc = "sample", !.config = config,
                   !.seed = ConfigSeed(config, now), !.stages = <<"Configured">>]

\* generateRelaxedPoints up to its relaxation loop: the sampled points
WithSample(f, points) ==
    [f EXCEPT !.pc = "relax", !.points = points, !.relaxed = <<points>>]

Sampled(f) ==
    CHOOSE g \in {WithSample(f, points) :
                      points \in {InitialPoints(MapSeededRandom(f.seed),
                                                f.config.territoryCount,
                                                Num(f.config.width),
                                                Num(f.config.height))}} : TRUE

\* one iteration of the relaxation loop: points = newPoints
WithRelaxed(f, points) == [f EXCEPT !.points = points, !.relaxed = Append(@, points)]

RelaxedOnce(f, closed, absent) ==
    CHOOSE g \in {WithRelaxed(f, points) :
                      points \in {RelaxFrom(f.points, f.config.territoryCount,
                                            Num(f.config.width),
                                            Num(f.config.height),
                                            closed, absent, 0, << >>)}} : TRUE

\* the iterations of the relaxation loop made so far
Iterations(f) == Len(f.relaxed) - 1

\* the relaxation loop's exit, return points, and the diagram of the final
\* points: Delaunay.from(points), delaunay.voronoi([0, 0, width, height])
Partitioned(f, closed, absent) ==
    [f EXCEPT !.pc = "names",
              !.cells = [k \in 1..Max2(f.config.territoryCount, 0) |->
                            cellPolygon(f.points, Num(f.config.width),
                                        Num(f.config.height), k - 1, closed, absent)],
              !.stages = @ \o <<"PointsSampled", "PartitionComputed">>]

\* const names = generateTerritoryNames(territoryCount, seed)
Named(f) ==
    [f EXCEPT !.pc = "build",
              !.names = generateTerritoryNames(f.config.territoryCount, f.seed),
              !.stages = Append(@, "Named")]

\* one iteration of the loop over i: metadata and colour of territory i
Built(f) ==
    [f EXCEPT !.i = @ + 1,
              !.territories =
                  PushTerritory(@, f.cells[f.i + 1], f.points, f.names,
                                Num(f.config.width), Num(f.config.height),
                                f.seed, f.i),
              !.stages = IF f.cells[f.i + 1] # NoCell
                         THEN @ \o <<"PerTerritoryClassified", "Colored">>
                         ELSE @]

\* what return territories hands to the caller, with the call's locals
ReturnOf(f) ==
    [config |-> f.config, seed |-> f.seed, relaxed |-> f.relaxed,
     points |-> f.points, cells |-> f.cells, names |-> f.names,
     result |-> f.territories, stages |-> Append(f.stages, "Assembled")]

\* Date.now() advances between calls
Tick ==
    /\ gm.pc = "idle"
    /\ DLess(clock, DAdd(StartClock, Num(MaxTicks)))
    /\ clock' = DAdd(clock, Num(1))
    /\ UNCHANGED <<closedCells, degenerate, instance, out, call, gtn, gm, peer, returned,
                 app, canvas>>

GenerateMapCall(config) ==
    /\ gm.pc = "idle"
    /\ Len(returned) < MaxCalls
    /\ gm' = Called(config, clock)
    /\ call' = [op |-> "generateMap"]
    /\ UNCHANGED <<clock, closedCells, degenerate, instance, out, gtn, peer, returned,
                 app, canvas>>

\* regenerateMap: generateMap({...config, seed: Date.now()})
RegenerateMapCall(config) ==
    GenerateMapCall([config EXCEPT !.seed = <<clock>>])

SamplePoints ==
    /\ gm.pc = "sample"
    /\ gm' = Sampled(Locals(gm, peer))
    /\ UNCHANGED <<clock, closedCells, degenerate, instance, out, call, gtn, peer, returned,
                 app, canvas>>

RelaxStep ==
    /\ gm.pc = "relax"
    /\ Iterations(gm) < DefaultRelaxationIterations
    /\ gm' = RelaxedOnce(Locals(gm, peer), closedCells, degenerate)
    /\ UNCHANGED <<clock, closedCells, degenerate, instance, out, call, gtn, peer, returned,
                 app, canvas>>

Partition ==
    /\ gm.pc = "relax"
    /\ ~(Iterations(gm) < DefaultRelaxationIterations)
    /\ gm' = Partitioned(Locals(gm, peer), closedCells, degenerate)
    /\ UNCHANGED <<clock, closedCells, degenerate, instance, out, call, gtn, peer, returned,
                 app, canvas>>

NameTerritories ==
    /\ gm.pc = "names"
    /\ gm' = Named(Locals(gm, peer))
    /\ UNCHANGED <<clock, closedCells, degenerate, instance, out, call, gtn, peer, returned,
                 app, canvas>>

BuildStep ==
    /\ gm.pc = "build"
    /\ gm.i < gm.config.territoryCount
    /\ gm' = Built(Locals(gm, peer))
    /\ UNCHANGED <<clock, closedCells, degenerate, instance, out, call, gtn, peer, returned,
                 app, canvas>>

\* the loop exit and return territories
GenerateMapReturn ==
    /\ gm.pc = "build"
    /\ ~(gm.i < gm.config.territoryCount)
    /\ returned' = Append(returned, ReturnOf(Locals(gm, peer)))
    /\ gm' = GmIdle
    /\ UNCHANGED <<clock, closedCells, degenerate, instance, out, call, gtn, peer,
                 app, canvas>>

\* a direct call of calculateArea, before any map is generated
CallCalculateArea(borderPoints) ==
    /\ call.op = "none"
    /\ gm.pc = "idle"
    /\ returned = << >>
    /\ call' = [op |-> "calculateArea", borderPoints |-> borderPoints,
                result |-> calculateArea(borderPoints)]
    /\ UNCHANGED <<clock, closedCells, degenerate, instance, out, gtn, gm, peer, returned,
                 app, canvas>>

Next ==
    \/ Tick
    \/ \E config \in Configs : GenerateMapCall(config)
    \/ \E config \in Configs : RegenerateMapCall(config)
    \/ SamplePoints
    \/ RelaxStep
    \/ Partition
    \/ NameTerritories
    \/ BuildStep
    \/ GenerateMapReturn
    \/ \E borderPoints \in Polygons : CallCalculateArea(borderPoints)

Spec == Init /\ [][Next]_vars

(***************************************************************************)
(* Properties of generateMap.                                              *)
(***************************************************************************)
Malformed(config) ==
    config.territoryCount <= 0 \/ config.width <= 0 \/ config.height <= 0

\* C1: two calls of generateMap with the same width, height, territoryCount
\* and explicit seed return identical territory lists, the partitioner being
\* a function of its points and bounds
C1_SameConfigSameMap ==
    \A j \in 1..Len(returned), k \in 1..Len(returned) :
        (returned[j].config = returned[k].config
            /\ returned[j].config.seed # NoSeed)
        => returned[j].result = returned[k].result

\* two calls with the same seeded configuration have returned territories,
\* the clock having advanced between them
C1_Witness ==
    /\ Len(returned) = 2
    /\ returned[1].config = returned[2].config
    /\ returned[1].config.seed = <<Num(42)>>
    /\ Len(returned[1].result) = MaxTerritories
    /\ clock # StartClock

\* C6: a call with territoryCount <= 0, width <= 0 or height <= 0 returns no
\* territory list and starts no point sampling
C6_MalformedRejected ==
    /\ \A k \in 1..Len(returned) : ~Malformed(returned[k].config)
    /\ gm.pc \in {"relax", "names", "build"} => ~Malformed(gm.config)

(***************************************************************************)
(* Properties of calculateArea.                                            *)
(***************************************************************************)
\* twice the signed shoelace sum of a list of integer coordinate pairs, with
\* the pair after the last being the first
RECURSIVE ShoelaceTwice(_, _)
ShoelaceTwice(c, k) ==
    IF k > Len(c) THEN 0
    ELSE c[k][1] * c[(k % Len(c)) + 1][2] - c[(k % Len(c)) + 1][1] * c[k][2]
            + ShoelaceTwice(c, k + 1)

AbsInt(n) == IF n < 0 THEN -n ELSE n

\* the integer coordinates of a polygon passed to calculateArea directly
CoordinatesOf(borderPoints) ==
    CHOOSE c \in PolygonCoordinates :
        borderPoints = [k \in 1..Len(c) |-> PointOf(c[k])]

\* the territories emitted so far, by returned calls and by the running one
Emitted ==
    UNION {{returned[k].result[j] : j \in 1..Len(returned[k].result)} :
              k \in 1..Len(returned)}
        \cup {gm.territories[j] : j \in 1..Len(gm.territories)}

\* C11: for 3 or more vertices calculateArea is the absolute value of half
\* the shoelace sum with wrap-around, never negative and exactly 100 for the
\* square of side 10; every territory's area is calculateArea of its own
\* borderPoints
C11_ShoelaceArea ==
    /\ (call.op = "calculateArea" /\ Len(call.borderPoints) >= 3)
        => /\ call.result =
                  DDiv(Num(AbsInt(ShoelaceTwice(CoordinatesOf(call.borderPoints), 1))),
                       Num(2))
           /\ ~call.result.neg
           /\ CoordinatesOf(call.borderPoints)
                  = << <<0, 0>>, <<10, 0>>, <<10, 10>>, <<0, 10>> >>
              => call.result = Num(100)
    /\ \A t \in Emitted : t.area = calculateArea(t.borderPoints) /\ ~t.area.neg

\* calculateArea has been called with a clockwise polygon, whose signed sum is
\* negative
C11_Witness ==
    /\ call.op = "calculateArea"
    /\ Len(call.borderPoints) >= 3
    /\ ShoelaceTwice(CoordinatesOf(call.borderPoints), 1) < 0
    /\ call.result = Num(100)

(***************************************************************************)
(* Properties of the territory list.                                       *)
(***************************************************************************)
\* the indices (0-based, increasing) below n of cells for which the
\* partitioner returned a polygon
RECURSIVE PresentBelow(_, _)
PresentBelow(cells, n) ==
    IF n = 0 THEN << >>
    ELSE IF cells[n] # NoCell THEN Append(PresentBelow(cells, n - 1), n - 1)
         ELSE PresentBelow(cells, n - 1)

CellLess(cells) == {k \in 1..Len(cells) : cells[k] = NoCell}

IdsOf(territories) == [j \in 1..Len(territories) |-> territories[j].id]

IdsAt(indices) == [j \in 1..Len(indices) |-> "territory-" \o ToString(indices[j])]

\* C12: an index without a cell produces no territory and every index with a
\* cell exactly one; the call returns, with territoryCount minus the number
\* of cell-less indices territories, in the order of their indices
C12_CellLessIndicesSkipped ==
    /\ \A k \in 1..Len(returned) :
          /\ Len(returned[k].result) =
                 Max2(returned[k].config.territoryCount, 0)
                     - Cardinality(CellLess(returned[k].cells))
          /\ IdsOf(returned[k].result) =
                 IdsAt(PresentBelow(returned[k].cells, Len(returned[k].cells)))
    /\ gm.pc = "build" =>
          IdsOf(gm.territories) = IdsAt(PresentBelow(gm.cells, gm.i))

\* a call has returned one territory fewer than requested, the partitioner
\* having reported no cell for the first of two points
C12_Witness ==
    /\ Len(returned) >= 1
    /\ returned[1].config.territoryCount = 2
    /\ returned[1].config.width > 0
    /\ returned[1].cells[1] = NoCell
    /\ returned[1].cells[2] # NoCell
    /\ IdsOf(returned[1].result) = <<"territory-1">>

\* C13: when every point has a cell in the final partition the call returns
\* territoryCount territories, the one at position i having id territory-i
\* and the i-th generated name; ids are pairwise distinct and every
\* borderPoints list is non-empty
C13_OneTerritoryPerPoint ==
    \A k \in 1..Len(returned) :
        CellLess(returned[k].cells) = {}
        => /\ Len(returned[k].result) = returned[k].config.territoryCount
           /\ \A j \in 1..Len(returned[k].result) :
                 /\ returned[k].result[j].id = "territory-" \o ToString(j - 1)
                 /\ returned[k].result[j].name = returned[k].names[j]
                 /\ returned[k].result[j].borderPoints # << >>
           /\ \A j \in 1..Len(returned[k].result), l \in 1..Len(returned[k].result) :
                 j # l => returned[k].result[j].id # returned[k].result[l].id
           /\ returned[k].names =
                 generateTerritoryNames(returned[k].config.territoryCount,
                                        returned[k].seed)

\* a call for MaxTerritories points, each with a cell, has returned
C13_Witness ==
    /\ Len(returned) >= 1
    /\ returned[1].config.territoryCount = MaxTerritories
    /\ CellLess(returned[1].cells) = {}
    /\ Len(returned[1].result) = MaxTerritories
    /\ returned[1].result[MaxTerritories].name = returned[1].names[MaxTerritories]

(***************************************************************************)
(* Two invocations of generateMap with interleaved stages.  JavaScript     *)
(* runs each call to completion; the interleaving is the hypothetical one  *)
(* of two callers, each with the locals of its own call.                   *)
(***************************************************************************)
\* the configurations of the interleaved calls: they differ in seed or size
InterleavedConfigs ==
    {[width |-> 1200, height |-> 800, territoryCount |-> MaxTerritories,
      seed |-> <<Num(42)>>],
     [width |-> 1200, height |-> 800, territoryCount |-> MaxTerritories,
      seed |-> NoSeed],
     [width |-> 800, height |-> 600, territoryCount |-> MaxTerritories,
      seed |-> <<Num(42)>>]}

\* the calls made so far
Calls(f, g, r) ==
    Len(r) + (IF f.pc = "idle" THEN 0 ELSE 1) + (IF g.pc = "idle" THEN 0 ELSE 1)

\* the loop of the territories is over
Finished(f) == f.pc = "build" /\ ~(f.i < f.config.territoryCount)

\* the next stage of an invocation that has not finished
Advance(f, closed, absent) ==
    CASE f.pc = "sample" -> Sampled(f)
      [] f.pc = "relax" /\ Iterations(f) < DefaultRelaxationIterations ->
            RelaxedOnce(f, closed, absent)
      [] f.pc = "relax" /\ ~(Iterations(f) < DefaultRelaxationIterations) ->
            Partitioned(f, closed, absent)
      [] f.pc = "names" -> Named(f)
      [] f.pc = "build" -> Built(f)

InterleavedCall(config) ==
    /\ gm.pc = "idle"
    /\ Calls(gm, peer, returned) < MaxCalls
    /\ gm' = Called(config, clock)
    /\ UNCHANGED <<clock, closedCells, degenerate, instance, out, call, gtn, peer, returned,
                 app, canvas>>

PeerCall(config) ==
    /\ peer.pc = "idle"
    /\ Calls(gm, peer, returned) < MaxCalls
    /\ peer' = Called(config, clock)
    /\ UNCHANGED <<clock, closedCells, degenerate, instance, out, call, gtn, gm, returned,
                 app, canvas>>

PeerStep ==
    /\ peer.pc # "idle"
    /\ ~Finished(peer)
    /\ peer' = Advance(Locals(peer, gm), closedCells, degenerate)
    /\ UNCHANGED <<clock, closedCells, degenerate, instance, out, call, gtn, gm, returned,
                 app, canvas>>

PeerReturn ==
    /\ peer.pc # "idle"
    /\ Finished(peer)
    /\ returned' = Append(returned, ReturnOf(Locals(peer, gm)))
    /\ peer' = GmIdle
    /\ UNCHANGED <<clock, closedCells, degenerate, instance, out, call, gtn, gm,
                 app, canvas>>

NextInterleaved ==
    \/ \E config \in InterleavedConfigs : InterleavedCall(config)
    \/ \E config \in InterleavedConfigs : PeerCall(config)
    \/ SamplePoints
    \/ RelaxStep
    \/ Partition
    \/ NameTerritories
    \/ BuildStep
    \/ GenerateMapReturn
    \/ PeerStep
    \/ PeerReturn

\* every point of the interleaved calls has a cell
InitInterleaved == Init /\ degenerate = {}

SpecInterleaved == InitInterleaved /\ [][NextInterleaved]_vars

\* what an invocation returns when all its stages run without interruption
RECURSIVE RunFrom(_, _, _)
RunFrom(f, closed, absent) ==
    IF Finished(f) THEN ReturnOf(f)
    ELSE CHOOSE r \in {RunFrom(g, closed, absent) :
                          g \in {Advance(f, closed, absent)}} : TRUE

RunAlone(config, now, closed, absent) == RunFrom(Called(config, now), closed, absent)

\* C14: each of two invocations whose stages are interleaved in any order
\* returns what it returns when run alone
C14_InterleavedCallsIndependent ==
    /\ \A k \in 1..Len(returned) :
          returned[k] = RunAlone(returned[k].config, clock, closedCells, degenerate)
    /\ (gm.pc # "idle" /\ Finished(gm))
          => ReturnOf(gm) = RunAlone(gm.config, clock, closedCells, degenerate)
    /\ (peer.pc # "idle" /\ Finished(peer))
          => ReturnOf(peer) = RunAlone(peer.config, clock, closedCells, degenerate)

\* two invocations with different configurations have run all their stages
\* while the other was in progress and are both about to return
C14_Witness ==
    /\ gm.pc = "build" /\ Finished(gm)
    /\ peer.pc = "build" /\ Finished(peer)
    /\ gm.config # peer.config
    /\ gm.territories # peer.territories
    /\ Len(gm.territories) = MaxTerritories

\* the sum of the areas of a territory list from entry k on
RECURSIVE SumAreas(_, _)
SumAreas(territories, k) ==
    IF k > Len(territories) THEN DZero
    ELSE DAdd(territories[k].area, SumAreas(territories, k + 1))

\* the least and the greatest abscissa of a non-empty polygon
RECURSIVE XMin(_, _)
XMin(polygon, k) ==
    IF k = Len(polygon) THEN polygon[k][1]
    ELSE DMin(polygon[k][1], XMin(polygon, k + 1))

RECURSIVE XMax(_, _)
XMax(polygon, k) ==
    IF k = Len(polygon) THEN polygon[k][1]
    ELSE DMax(polygon[k][1], XMax(polygon, k + 1))

\* the cells of the partitioner are strips between abscissae, so two
\* polygons overlap exactly when their ranges of abscissae do
Overlapping(p, q) ==
    DLess(XMin(p, 1), XMax(q, 1)) /\ DLess(XMin(q, 1), XMax(p, 1))

AreaEpsilon == Num(1)

CoversRectangle(r) ==
    DLess(DAbs(DSub(SumAreas(r.result, 1),
                    DMul(Num(r.config.width), Num(r.config.height)))),
          AreaEpsilon)

NoOverlap(r) ==
    \A j \in 1..Len(r.result), l \in 1..Len(r.result) :
        j # l => ~Overlapping(r.result[j].borderPoints, r.result[l].borderPoints)

\* C15: in every generated map the polygons of the territories do not
\* overlap pairwise and the areas of the territories add up to width*height
\* within a small epsilon
C15_TerritoriesTileRectangle ==
    \A k \in 1..Len(returned) : NoOverlap(returned[k]) /\ CoversRectangle(returned[k])

\* a value is a number, as opposed to an error
IsNumber(v) == DOMAIN v = {"neg", "m", "e"}

\* C16: for a polygon of fewer than 3 vertices calculateArea reports an
\* error and returns no numeric area
C16_FewVerticesRejected ==
    (call.op = "calculateArea" /\ Len(call.borderPoints) < 3)
        => ~IsNumber(call.result)

(***************************************************************************)
(* Properties of the relaxation.                                           *)
(***************************************************************************)
\* the vertices of a polygon, each once: a closing entry that repeats the
\* first vertex is not a vertex of its own
VerticesOnce(cell) ==
    IF Len(cell) > 1 /\ cell[1] = cell[Len(cell)] THEN SliceDropLast(cell) ELSE cell

\* the arithmetic mean of a list of vertices
MeanOf(vertices) ==
    << DDiv(SumCoord(vertices, 1, 1, DZero), Num(Len(vertices))),
       DDiv(SumCoord(vertices, 2, 1, DZero), Num(Len(vertices))) >>

\* what one relaxation iteration is to make of the points before it
LloydPoint(before, config, closed, absent, k) ==
    IF cellPolygon(before, Num(config.width), Num(config.height), k - 1,
                   closed, absent) # NoCell
    THEN MeanOf(VerticesOnce(cellPolygon(before, Num(config.width),
                                         Num(config.height), k - 1, closed, absent)))
    ELSE before[k]

LloydIterations(relaxed, config, closed, absent) ==
    \A n \in 1..(Len(relaxed) - 1) :
        /\ Len(relaxed[n + 1]) = Len(relaxed[n])
        /\ \A k \in 1..Len(relaxed[n]) :
              relaxed[n + 1][k] = LloydPoint(relaxed[n], config, closed, absent, k)

\* C17: every relaxation iteration replaces each point that has a cell by the
\* mean of the cell's vertices, each vertex counted once, keeps each point
\* without a cell, and keeps the number and order of the points
C17_LloydIteration ==
    /\ gm.pc \in {"relax", "names", "build"} =>
          /\ LloydIterations(gm.relaxed, gm.config, closedCells, degenerate)
          /\ Len(gm.points) = Max2(gm.config.territoryCount, 0)
    /\ \A k \in 1..Len(returned) :
          LloydIterations(returned[k].relaxed, returned[k].config, closedCells,
                          degenerate)

\* C18: a call of generateMap, which passes no iteration count, performs
\* exactly 3 relaxation iterations before the final partition
C18_ThreeRelaxationIterations ==
    /\ gm.pc \in {"names", "build"} => Iterations(gm) = 3
    /\ \A k \in 1..Len(returned) : Len(returned[k].relaxed) - 1 = 3

(***************************************************************************)
(* Properties of the order of the stages.                                  *)
(***************************************************************************)
StageOrder ==
    <<"Configured", "PointsSampled", "PartitionComputed", "PerTerritoryClassified",
      "Named", "Colored", "Assembled">>

Rank(stage) == CHOOSE n \in 1..Len(StageOrder) : StageOrder[n] = stage

\* no stage is entered after a later one
InStageOrder(stages) ==
    \A a \in 1..Len(stages), b \in 1..Len(stages) :
        a < b => Rank(stages[a]) <= Rank(stages[b])

\* C19: a run passes through Configured, PointsSampled, PartitionComputed,
\* PerTerritoryClassified, Named, Colored, Assembled in this order, without
\* re-entering a stage: naming starts after all territories are classified
\* and colouring after naming
C19_StagesInOrder ==
    /\ InStageOrder(gm.stages)
    /\ \A k \in 1..Len(returned) :
          /\ InStageOrder(returned[k].stages)
          /\ returned[k].result # << >> =>
                {returned[k].stages[n] : n \in 1..Len(returned[k].stages)}
                    = {StageOrder[n] : n \in 1..Len(StageOrder)}

\* the borderPoints of a territory list are the vertices of the cells of the
\* indices that have one
BorderPointsAreCells(territories, cells, n) ==
    \A j \in 1..Len(territories) :
        /\ territories[j].borderPoints =
               VerticesOnce(cells[PresentBelow(cells, n)[j] + 1])
        /\ territories[j].borderPoints[1]
               # territories[j].borderPoints[Len(territories[j].borderPoints)]

\* C20: the borderPoints of every territory are the vertices of the cell of
\* its index, in the partitioner's order, none missing and the last different
\* from the first, whether or not the partitioner repeats the first vertex at
\* the end
C20_BorderPointsAreCellVertices ==
    /\ gm.pc = "build" => BorderPointsAreCells(gm.territories, gm.cells, gm.i)
    /\ \A k \in 1..Len(returned) :
          BorderPointsAreCells(returned[k].result, returned[k].cells,
                               Len(returned[k].cells))

(***************************************************************************)
(* Properties of the seeds derived within one call.                        *)
(***************************************************************************)
\* the names collected from the attempts k, k + 1, ..., attempt k using the
\* seed s + k
RECURSIVE NamesFromAttempts(_, _, _, _)
NamesFromAttempts(s, count, k, names) ==
    IF Len(names) >= count THEN names
    ELSE NamesFromAttempts(s, count, k + 1,
                           SetAdd(names, generateTerritoryName(DAdd(s, Num(k)))))

\* territory t of index i in a call of base seed s on a width x height map
DerivedSeeds(t, i, s, width, height) ==
    /\ t.metadata.terrain =
           generateTerrain(t.centerX, t.centerY, width, height, DAdd(s, Num(i)))
    /\ t.metadata.resources =
           generateResources(t.metadata.terrain, DAdd(DAdd(s, Num(i)), Num(1000)))
    /\ t.metadata.resources =
           ResourcesOf(MetaNextInts(
               MetaSeededRandom(DAdd(s, Num(i + 1000))),
               ResourceTable(t.metadata.terrain)))
    /\ t.color = generateTerrainColor(t.metadata.terrain, i, s)

DerivedSeedsOf(r) ==
    /\ r.relaxed[1] =
           PointsOf(MapNextValues(MapSeededRandom(r.seed),
                                  2 * Max2(r.config.territoryCount, 0)),
                    Num(r.config.width), Num(r.config.height))
    /\ r.names = NamesFromAttempts(r.seed, r.config.territoryCount, 0, << >>)
    /\ \A j \in 1..Len(r.result) :
          DerivedSeeds(r.result[j], PresentBelow(r.cells, Len(r.cells))[j],
                       r.seed, Num(r.config.width), Num(r.config.height))

\* C21: with base seed s the points are drawn from SeededRandom(s), the k-th
\* name attempt uses s + k, territory i's terrain uses s + i, its food, gold
\* and military are drawn in this order from SeededRandom(s + i + 1000), and
\* its colour uses s; stated of what a call is about to return
C21_DerivedSeeds == (gm.pc = "build" /\ Finished(gm)) => DerivedSeedsOf(ReturnOf(gm))

\* a call with seed 42 is about to return a territory of index 1, whose
\* seeds differ from the base seed
C21_Witness ==
    /\ gm.pc = "build" /\ Finished(gm)
    /\ gm.seed = Num(42)
    /\ Len(gm.territories) >= 1
    /\ gm.territories[Len(gm.territories)].id = "territory-1"

(***************************************************************************)
(* Properties of the draws of generateMetadata.                            *)
(***************************************************************************)
\* the range of the base population per terrain
PopulationRange(terrain) ==
    CASE terrain = "plains" -> <<8000, 15000>>
      [] terrain = "forest" -> <<5000, 10000>>
      [] terrain = "mountains" -> <<2000, 5000>>
      [] terrain = "desert" -> <<1000, 4000>>
      [] terrain = "hills" -> <<6000, 12000>>
      [] terrain = "coastal" -> <<10000, 18000>>

\* five successive nextInt draws of the generator of the resources: food,
\* gold, military, base population, culture index
ResourceStream(terrain, seed) ==
    MetaNextInts(MetaSeededRandom(DAdd(seed, Num(1000))),
                 ResourceTable(terrain)
                     \o <<PopulationRange(terrain), <<0, Len(cultures) - 1>> >>)

\* C22: the base population is the draw that follows the three resource
\* draws on the generator seeded with seed + 1000, and the culture index is
\* the draw after it on the same generator
C22_PopulationFromResourceGenerator ==
    call.op = "generateMetadata" =>
        /\ call.result.population =
               DRound(DMul(Num(ResourceStream(call.result.terrain, call.seed)[4]),
                           AreaMultiplier(Num(call.width), Num(call.height),
                                          call.area)))
        /\ call.result.culture =
               At(cultures, ResourceStream(call.result.terrain, call.seed)[5])

(***************************************************************************)
(* Properties of the three generator classes.                              *)
(***************************************************************************)
\* the generator state of the instance in use, whatever its class
StateNow == [seed |-> instance.seed]

\* what the recurrence of the claim makes of a state: the new state and the
\* value of next()
RecurrenceOf(rng) ==
    [rng |-> [seed |-> DRem(DAdd(DMul(rng.seed, Num(Multiplier)), Num(Increment)),
                            Modulus)],
     value |-> DDiv(DRem(DAdd(DMul(rng.seed, Num(Multiplier)), Num(Increment)),
                         Modulus),
                    Num(Modulus))]

NextIntOfRecurrence(rng, min, max) ==
    [rng |-> RecurrenceOf(rng).rng,
     value |-> DFloor(DMul(RecurrenceOf(rng).value, Num(max - min + 1))) + min]

\* C23 as stated: each of the three classes has next() and nextInt() of the
\* same recurrence
C23_ThreeClassesNextAndNextInt ==
    instance.cls # "none" =>
        /\ NextOf(instance.cls, StateNow) = RecurrenceOf(StateNow)
        /\ HasNextInt(instance.cls)

\* C23 amended: from every state reached by any class the three classes make
\* the same next() draw, that of the recurrence, and the two classes that
\* declare nextInt make the same nextInt draw for every range
C23_SameStream ==
    instance.cls # "none" =>
        /\ \A cls \in RngClasses : NextOf(cls, StateNow) = RecurrenceOf(StateNow)
        /\ \A cls \in {c \in RngClasses : HasNextInt(c)}, r \in IntRanges :
              NextIntOf(cls, StateNow, r[1], r[2])
                  = NextIntOfRecurrence(StateNow, r[1], r[2])
        /\ out.op = "next" => out.value = DDiv(instance.seed, Num(Modulus))

\* an instance of mapGenerator's class has made MaxDraws draws from a
\* negative seed
C23_Witness ==
    /\ instance.cls = "map"
    /\ instance.draws = MaxDraws
    /\ instance.seed.neg
    /\ out.op = "next"

(***************************************************************************)
(* Properties of generateTerritoryName.                                    *)
(***************************************************************************)
\* the value of the k-th draw (k >= 1) of a generator constructed with seed s
RECURSIVE StateAfter(_, _)
StateAfter(s, k) == IF k = 0 THEN s ELSE Lcg(StateAfter(s, k - 1))

DrawOf(s, k) == DDiv(StateAfter(s, k), Num(Modulus))

\* the index the k-th draw selects in a table
IndexOf(s, k, table) == DFloor(DMul(DrawOf(s, k), Num(Len(table))))

InsideTable(s, k, table) == 0 <= IndexOf(s, k, table) /\ IndexOf(s, k, table) < Len(table)

\* the name the claim describes for a seed whose indices are inside the tables
StructuredName(s) ==
    IF DLess(DrawOf(s, 1), Lit(6, 10))
    THEN Str(prefixes[IndexOf(s, 2, prefixes) + 1]
                 \o middles[IndexOf(s, 3, middles) + 1]
                 \o suffixes[IndexOf(s, 4, suffixes) + 1])
    ELSE IF DLess(DrawOf(s, 1), Lit(9, 10))
    THEN Str(prefixes[IndexOf(s, 2, prefixes) + 1]
                 \o suffixes[IndexOf(s, 4, suffixes) + 1])
    ELSE Str(prefixes[IndexOf(s, 2, prefixes) + 1]
                 \o middles[IndexOf(s, 3, middles) + 1])

\* the seeds of the attempts made so far
TriedSeeds == {gtn.tried[k] : k \in 1..Len(gtn.tried)}

\* C24: generateTerritoryName(seed) draws r, a prefix index, a middle index
\* and a suffix index in this order and returns prefix+middle+suffix for
\* r < 0.6, prefix+suffix for 0.6 <= r < 0.9 and prefix+middle otherwise; for
\* a non-negative seed every index is inside its table
C24_NameStructure ==
    \A s \in TriedSeeds :
        ~s.neg =>
            /\ InsideTable(s, 2, prefixes)
            /\ InsideTable(s, 3, middles)
            /\ InsideTable(s, 4, suffixes)
            /\ generateTerritoryName(s) = StructuredName(s)
            /\ Has(gtn.names, StructuredName(s))

\* attempts with non-negative seeds have produced a prefix+middle name and
\* a name of one of the other structures
C24_Witness ==
    /\ \E s \in TriedSeeds : ~s.neg /\ DLess(DrawOf(s, 1), Lit(9, 10))
    /\ \E s \in TriedSeeds : ~s.neg /\ ~DLess(DrawOf(s, 1), Lit(9, 10))

(***************************************************************************)
(* Direct calls of generateTerrainColor.                                   *)
(***************************************************************************)
CallGenerateTerrainColor(terrain, index, seed) ==
    /\ call.op = "none"
    /\ call' = [op |-> "generateTerrainColor", terrain |-> terrain,
                index |-> index, seed |-> seed,
                hsl |-> TerrainHsl(terrain, index, seed),
                result |-> generateTerrainColor(terrain, index, seed)]
    /\ UNCHANGED <<clock, closedCells, degenerate, instance, out, gtn, gm, peer, returned,
                 app, canvas>>

NextColor ==
    \E terrain \in Terrains, index \in 0..MaxIndex, seed \in ColorSeeds :
        CallGenerateTerrainColor(terrain, index, seed)

SpecColor == InitDirect /\ [][NextColor]_vars

\* the documented range of hues per terrain
HueRange(terrain) ==
    CASE terrain = "plains" -> <<80, 120>>
      [] terrain = "forest" -> <<120, 150>>
      [] terrain = "desert" -> <<40, 70>>
      [] terrain = "hills" -> <<25, 60>>
      [] terrain = "coastal" -> <<200, 240>>
      [] terrain = "mountains" -> <<0, 0>>

\* C25: for every index i >= 0 and every seed the hue generateTerrainColor
\* uses is inside the range of its terrain, and is 0 for mountains
C25_HueInTerrainRange ==
    call.op = "generateTerrainColor" =>
        /\ ~DLess(call.hsl[1], Num(HueRange(call.terrain)[1]))
        /\ ~DLess(Num(HueRange(call.terrain)[2]), call.hsl[1])
        /\ call.result = hslToHex(call.hsl[1], call.hsl[2], call.hsl[3])

\* a plains colour has been generated with the greatest hue the code
\* produces for plains
C25_Witness ==
    /\ call.op = "generateTerrainColor"
    /\ call.terrain = "plains"
    /\ call.hsl[1] = Num(115)

(***************************************************************************)
(* The App component under use: Regenerate clicks, file imports and the   *)
(* onload callbacks of their FileReaders.                                 *)
(***************************************************************************)
MaxImports == 2

\* the texts of the files chosen for import; line feed is 10 and the text
\* given by its code units is a string holding a form feed (12)
Files ==
    { Text(<<"[", "]">>),
      Text(<<"[", "{", "\"", "i", "d", "\"", ":", "\"", "t", "0", "\"", "}", "]">>),
      Text(<<"{", "\"", "i", "d", "\"", ":", " ", "1", "}">>),
      Text(<<"n", "u", "l", "l">>),
      Text(<<"4", "2">>),
      Text(<<" ", "[", " ", "-", "7", ".", "5", "e", "2", ",", " ", "t", "r", "u",
             "e", " ", "]">>) \o <<10>>,
      Text(<<"{", "\"", "a", "\"", ":", "1", ",", "\"", "a", "\"", ":", "[", "]", "}">>),
      Text(<<"\"", "\\", "u", "0", "0", "e", "9", "\\", "n", "\"">>),
      Text(<<"1", "7", "9", "3", "2", "3", "2", "0", "0", "0", "0", "0", "0">>),
      << >>,
      Text(<<"[", "1", ",", "]">>),
      Text(<<"{", "\"", "i", "d", "\"", " ", "1", "}">>),
      Text(<<"0", "1">>),
      <<34, 97, 12, 98, 34>>,
      Text(<<"n", "u", "l">>) }

\* the sequence s without its entry k
Without(s, k) == SubSeq(s, 1, k - 1) \o SubSeq(s, k + 1, Len(s))

\* reader.onload for the k-th read in progress: JSON.parse of the text, then
\* setTerritories(data), or alert('Invalid JSON file') where it throws
OnLoadUnguarded(a, k) ==
    LET data == JSONParse(a.reading[k])
    IN  [a EXCEPT !.territories = data.value,
                  !.alerts = IF data.ok THEN a.alerts ELSE a.alerts + 1,
                  !.reading = Without(a.reading, k),
                  !.last = [text |-> a.reading[k], loaded |-> TRUE,
                            territories |-> a.territories, alerts |-> a.alerts]]

OnLoad(a, k) ==
    LET data == JSONParse(a.reading[k])
    IN  [a EXCEPT !.territories = IF data.ok THEN data.value ELSE a.territories,
                  !.alerts = IF data.ok THEN a.alerts ELSE a.alerts + 1,
                  !.reading = Without(a.reading, k),
                  !.last = [text |-> a.reading[k], loaded |-> TRUE,
                            territories |-> a.territories, alerts |-> a.alerts]]

\* the slider's onChange: setTerritoryCount(Number(e.target.value))
SetTerritoryCount(n) ==
    /\ n \in SliderMin..SliderMax
    /\ n # app.territoryCount
    /\ app' = [app EXCEPT !.territoryCount = n]
    /\ UNCHANGED <<clock, closedCells, degenerate, instance, out, call, gtn, gm,
                   peer, returned, canvas>>

\* the configuration handleRegenerate builds: config with the territoryCount
\* state and the seed Date.now()
NewConfig(a, now) == [AppConfig(now) EXCEPT !.territoryCount = a.territoryCount]

\* handleRegenerate: generateMap(newConfig)
HandleRegenerate ==
    /\ app' = [app EXCEPT !.territories = GeneratedTerritories(NewConfig(app, clock)),
                          !.last = NoLoad]
    /\ UNCHANGED <<clock, closedCells, degenerate, instance, out, call, gtn, gm,
                   peer, returned, canvas>>

\* handleImport with a file chosen (with none it returns at once): a
\* FileReader starts reading the file as text
HandleImport(text) ==
    /\ app.imports < MaxImports
    /\ app' = [app EXCEPT !.reading = Append(app.reading, text),
                          !.imports = app.imports + 1,
                          !.last = NoLoad]
    /\ UNCHANGED <<clock, closedCells, degenerate, instance, out, call, gtn, gm,
                   peer, returned, canvas>>

\* a FileReader finishes and its onload runs
ReaderLoaded(k) ==
    /\ k \in 1..Len(app.reading)
    /\ app' = OnLoad(app, k)
    /\ UNCHANGED <<clock, closedCells, degenerate, instance, out, call, gtn, gm,
                   peer, returned, canvas>>

\* the slider positions tried: both ends of the range and the initial count
SliderPositions == {SliderMin, InitialTerritoryCount, SliderMax}

NextApp ==
    \/ Tick
    \/ \E n \in SliderPositions : SetTerritoryCount(n)
    \/ HandleRegenerate
    \/ \E text \in Files : HandleImport(text)
    \/ \E k \in 1..MaxImports : ReaderLoaded(k)

SpecApp == InitDirect /\ [][NextApp]_vars

\* C26: when the onload of an import has run, a text that is not valid JSON
\* has left the territories as they were and raised one alert, and a text
\* that is valid JSON has replaced the territories by the parsed value,
\* whatever that value is
C26_ImportReplacesOrAlerts ==
    app.last.loaded =>
        IF JSONParse(app.last.text).ok
        THEN /\ app.territories = JSONParse(app.last.text).value
             /\ app.alerts = app.last.alerts
        ELSE /\ app.territories = app.last.territories
             /\ app.alerts = app.last.alerts + 1

\* an import of the text null was stored as it is, and a later import of a
\* string with a raw form feed in it, which is not valid JSON, left it in
\* place and raised the one alert
C26_Witness ==
    /\ app.last.loaded
    /\ ~JSONParse(app.last.text).ok
    /\ app.last.text = <<34, 97, 12, 98, 34>>
    /\ app.territories = JsonNull
    /\ app.alerts = 1

(***************************************************************************)
(* generateTerrain over a grid of points of the default map, of square    *)
(* maps and of a wide map.                                                *)
(***************************************************************************)
GridSteps == 10

\* the default map of App, two square maps and a wide map
TerrainSizes ==
    {<<AppWidth, AppHeight>>, <<800, 800>>, <<500, 500>>, <<2000, 500>>}

\* seeds whose first draws are 0.211, 0.251, 0.291 and 0.331
TerrainSeeds == {Num(0), Num(1), Num(2), Num(3)}

NextTerrain ==
    \E size \in TerrainSizes, i \in 0..GridSteps, j \in 0..GridSteps,
       seed \in TerrainSeeds :
        CallGenerateTerrain((size[1] * i) \div GridSteps, (size[2] * j) \div GridSteps,
                            size[1], size[2], seed)

SpecTerrain == InitDirect /\ [][NextTerrain]_vars

DefaultOrSquare(width, height) ==
    (width = AppWidth /\ height = AppHeight) \/ width = height

\* C27: generateTerrain returns desert only for a point with
\* normalizedEdgeDist >= 0.30 and normalizedDist > 0.60 and a draw r with
\* 0.25 <= r < 0.3; on the 1200x800 map and on square maps no point has both
\* distances in that range and desert is never returned
C27_NoDesertOnDefaultOrSquare ==
    call.op = "generateTerrain" =>
        LET edge == NormalizedEdgeDist(Num(call.x), Num(call.y),
                                       Num(call.width), Num(call.height))
            dist == NormalizedDist(Num(call.x), Num(call.y),
                                   Num(call.width), Num(call.height))
            r == MetaNext(MetaSeededRandom(call.seed)).value
        IN  /\ call.result = "desert" =>
                  /\ ~DLess(edge, Lit(3, 10))
                  /\ DLess(Lit(6, 10), dist)
                  /\ ~DLess(r, Lit(25, 100))
                  /\ DLess(r, Lit(3, 10))
            /\ DefaultOrSquare(call.width, call.height) =>
                  /\ call.result # "desert"
                  /\ ~(~DLess(edge, Lit(3, 10)) /\ DLess(Lit(6, 10), dist))

\* the point (240, 240) of the 1200x800 map, three tenths from the edge and
\* past the plains radius, with a draw in [0.25, 0.3): plains by default
C27_Witness ==
    /\ call.op = "generateTerrain"
    /\ call.width = AppWidth /\ call.height = AppHeight
    /\ call.x = 240 /\ call.y = 240
    /\ call.seed = Num(1)
    /\ ~DLess(NormalizedDist(Num(240), Num(240), Num(AppWidth), Num(AppHeight)),
              Lit(5, 10))
    /\ call.result = "plains"

\* C28: in generateMetadata the draw r that classifies the terrain is also
\* the draw of the base population, lo + floor(r * (hi - lo + 1)) for the
\* range [lo, hi] of the terrain, which the returned population scales by
\* the area; a forest's base population is at most 6250 and a mountains'
\* at most 3800
C28_BasePopulationFromTerrainDraw ==
    call.op = "generateMetadata" =>
        LET r == MetaNext(MetaSeededRandom(call.seed)).value
            terrain == call.result.terrain
            lo == PopulationRange(terrain)[1]
            hi == PopulationRange(terrain)[2]
            base == lo + DFloor(DMul(r, Num(hi - lo + 1)))
        IN  /\ terrain = TerrainOf(NormalizedDist(Num(call.x), Num(call.y),
                                                  Num(call.width), Num(call.height)),
                                   NormalizedEdgeDist(Num(call.x), Num(call.y),
                                                      Num(call.width),
                                                      Num(call.height)),
                                   r)
            /\ BasePopulation(MetaSeededRandom(call.seed), terrain).value = base
            /\ call.result.population =
                   DRound(DMul(Num(base),
                               AreaMultiplier(Num(call.width), Num(call.height),
                                              call.area)))
            /\ terrain = "forest" => base <= 6250
            /\ terrain = "mountains" => base <= 3800

\* a forest territory with seed 0: r = 0.2113 and base population 6056
C28_Witness ==
    /\ call.op = "generateMetadata"
    /\ call.seed = Num(0)
    /\ call.result.terrain = "forest"
    /\ BasePopulation(MetaSeededRandom(call.seed), "forest").value = 6056
    /\ call.area = Num(32000)
    /\ call.result.population = 5934

(***************************************************************************)
(* generateMap with seeds that differ by the modulus of the generators.   *)
(***************************************************************************)
\* a seed near the top of the range in which (seed + 1000) * 9301 + 49297
\* is below 2^53
LargeSeed == DMul(Num(900000), Num(1000000))

PeriodSeeds == {Num(42), LargeSeed}

PeriodConfigs ==
    [width : {AppWidth}, height : {AppHeight}, territoryCount : {MaxTerritories},
     seed : {<<s>> : s \in PeriodSeeds} \cup
            {<<DAdd(s, Num(Modulus))>> : s \in PeriodSeeds}]

NextPeriod ==
    \/ \E config \in PeriodConfigs : GenerateMapCall(config)
    \/ SamplePoints
    \/ RelaxStep
    \/ Partition
    \/ NameTerritories
    \/ BuildStep
    \/ GenerateMapReturn

SpecPeriod == Init /\ [][NextPeriod]_vars

\* C29: two generateMap calls with the same width, height and
\* territoryCount and non-negative seeds s and s + 233280 return the same
\* territory list
C29_SeedPeriod ==
    \A a, b \in 1..Len(returned) :
        ( /\ returned[a].config.width = returned[b].config.width
          /\ returned[a].config.height = returned[b].config.height
          /\ returned[a].config.territoryCount = returned[b].config.territoryCount
          /\ ~DLess(returned[a].seed, DZero)
          /\ returned[b].seed = DAdd(returned[a].seed, Num(Modulus)) )
        => returned[a].result = returned[b].result

\* the calls with seeds 42 and 233322 have both returned, each a list of
\* MaxTerritories territories, all names and colours included
C29_Witness ==
    /\ Len(returned) = 2
    /\ returned[1].seed = Num(42)
    /\ returned[2].seed = Num(233322)
    /\ Len(returned[1].result) = MaxTerritories
    /\ returned[1].result = returned[2].result
    /\ returned[1].result[1].color = generateTerrainColor(
           returned[1].result[1].metadata.terrain, 0, returned[2].seed)

(***************************************************************************)
(* The MapCanvas component under use: wheel events over the canvas and    *)
(* clicks on the '+', '-' and Reset buttons.                              *)
(***************************************************************************)
MaxClicks == 9

MaxWheels == 1

\* e.deltaY of a wheel event
DeltaYs == {-100, 0, 100}

\* the position of the mouse relative to the canvas
MousePositions == {<<600, 400>>}

MaxMoves == 1

\* the positions of the mouse events other than the wheel
ScreenPositions == {[x |-> 100, y |-> 100], [x |-> 700, y |-> 120]}

\* the position where a mouse button goes down
DownPositions == {[x |-> 100, y |-> 100]}

\* a rectangle as a borderPoints array
Rectangle(x0, y0, x1, y1) ==
    << <<Num(x0), Num(y0)>>, <<Num(x1), Num(y0)>>,
       <<Num(x1), Num(y1)>>, <<Num(x0), Num(y1)>> >>

\* the territories prop: the two halves of the default map
CanvasTerritories ==
    << [id |-> "territory-0", borderPoints |-> Rectangle(0, 0, 600, 800)],
       [id |-> "territory-1", borderPoints |-> Rectangle(600, 0, 1200, 800)] >>

\* intersect of isPointInPolygon for the edge between the points pi and pj
Intersect(point, pi, pj) ==
    /\ DLess(point[2], pi[2]) # DLess(point[2], pj[2])
    /\ DLess(point[1],
             DAdd(DDiv(DMul(DSub(pj[1], pi[1]), DSub(point[2], pi[2])),
                       DSub(pj[2], pi[2])),
                  pi[1]))

\* the loop of isPointInPolygon at the edge from polygon[j] to polygon[i]
RECURSIVE PointInPolygonFrom(_, _, _, _, _)
PointInPolygonFrom(point, polygon, i, j, inside) ==
    IF i > Len(polygon) THEN inside
    ELSE PointInPolygonFrom(point, polygon, i + 1, i,
                            IF Intersect(point, polygon[i], polygon[j])
                            THEN ~inside ELSE inside)

\* ray casting: whether a point is inside a polygon
isPointInPolygon(point, polygon) ==
    PointInPolygonFrom(point, polygon, 1, Len(polygon), FALSE)

\* screen coordinates to world coordinates
screenToWorld(c, screen) ==
    << DDiv(DSub(Num(screen.x), c.pan[1]), c.zoom),
       DDiv(DSub(Num(screen.y), c.pan[2]), c.zoom) >>

\* the indices of the territories the point is in
Containing(territories, point) ==
    {k \in 1..Len(territories) : isPointInPolygon(point, territories[k].borderPoints)}

\* the first of the territories found, or null
FirstOf(territories, found) ==
    IF found = {} THEN Null
    ELSE territories[CHOOSE k \in found : \A h \in found : k <= h]

\* territories.find(...) || null: the first territory the point is in
TerritoryAt(territories, point) ==
    CHOOSE t \in {FirstOf(territories, found) :
                      found \in {Containing(territories, point)}} : TRUE

\* the hover branch of handleMouseMove, world being the mouse position in
\* world coordinates
Hovered(c, screen, world) ==
    [c EXCEPT !.mousePos = screen,
              !.hoveredTerritory = TerritoryAt(CanvasTerritories, world)]

\* handleMouseMove with the mouse at the screen position: a drag moves the
\* pan by the distance from the last position, otherwise the territory under
\* the mouse is the hovered one
MouseMoved(c, screen) ==
    IF c.isPanning /\ c.lastPanPos # Null
    THEN [c EXCEPT !.pan = << DAdd(c.pan[1], Num(screen.x - c.lastPanPos.x)),
                              DAdd(c.pan[2], Num(screen.y - c.lastPanPos.y)) >>,
                   !.lastPanPos = screen]
    ELSE CHOOSE h \in {Hovered(c, screen, world) :
                           world \in {screenToWorld(c, screen)}} : TRUE

\* the limits of the zoom factor
MinZoom == Lit(5, 10)

MaxZoom == Num(5)

\* zoomFactor of handleWheel for a positive deltaY and for any other
WheelOutFactor == Lit(9, 10)

WheelInFactor == Lit(11, 10)

\* the factors of the '+' and the '-' button
ZoomInFactor == Lit(12, 10)

ZoomOutFactor == Lit(8, 10)

\* newZoom of handleWheel
WheelZoom(zoom, deltaY) ==
    DMin(DMax(DMul(zoom, IF deltaY > 0 THEN WheelOutFactor ELSE WheelInFactor),
              MinZoom),
         MaxZoom)

\* newPanX, newPanY of handleWheel: mouse - (mouse - pan) * zoomChange
WheelPan(pan, mouse, zoomChange) ==
    << DSub(Num(mouse[1]), DMul(DSub(Num(mouse[1]), pan[1]), zoomChange)),
       DSub(Num(mouse[2]), DMul(DSub(Num(mouse[2]), pan[2]), zoomChange)) >>

\* the '+' button: Math.min(zoom * 1.2, 5)
ZoomedIn(zoom) == DMin(DMul(zoom, ZoomInFactor), MaxZoom)

\* the '-' button without the lower limit
ZoomedOutUnlimited(zoom) == DMul(zoom, ZoomOutFactor)

\* the '-' button: Math.max(zoom * 0.8, 0.5)
ZoomedOut(zoom) == DMax(DMul(zoom, ZoomOutFactor), MinZoom)

\* handleWheel on a canvas state: setZoom(newZoom), setPan(newPan)
Wheeled(c, mouse, newZoom) ==
    [c EXCEPT !.zoom = newZoom,
              !.pan = WheelPan(c.pan, mouse, DDiv(newZoom, c.zoom)),
              !.wheels = c.wheels + 1]

HandleWheel(deltaY, mouse) ==
    /\ canvas.wheels < MaxWheels
    /\ canvas' = CHOOSE c \in {Wheeled(canvas, mouse, newZoom) :
                                   newZoom \in {WheelZoom(canvas.zoom, deltaY)}} : TRUE
    /\ UNCHANGED <<clock, closedCells, degenerate, instance, out, call, gtn, gm,
                   peer, returned, app>>

ZoomInClick ==
    /\ canvas.clicks < MaxClicks
    /\ canvas' = [canvas EXCEPT !.zoom = ZoomedIn(canvas.zoom),
                                !.clicks = canvas.clicks + 1]
    /\ UNCHANGED <<clock, closedCells, degenerate, instance, out, call, gtn, gm,
                   peer, returned, app>>

ZoomOutClick ==
    /\ canvas.clicks < MaxClicks
    /\ canvas' = [canvas EXCEPT !.zoom = ZoomedOut(canvas.zoom),
                                !.clicks = canvas.clicks + 1]
    /\ UNCHANGED <<clock, closedCells, degenerate, instance, out, call, gtn, gm,
                   peer, returned, app>>

\* handleReset: setZoom(1), setPan({ x: 0, y: 0 })
HandleReset ==
    /\ canvas.clicks < MaxClicks
    /\ canvas' = [canvas EXCEPT !.zoom = Num(1), !.pan = <<DZero, DZero>>,
                                !.clicks = canvas.clicks + 1]
    /\ UNCHANGED <<clock, closedCells, degenerate, instance, out, call, gtn, gm,
                   peer, returned, app>>

HandleMouseMove(screen) ==
    /\ canvas.moves < MaxMoves
    /\ canvas' = [MouseMoved(canvas, screen) EXCEPT !.moves = canvas.moves + 1]
    /\ UNCHANGED <<clock, closedCells, degenerate, instance, out, call, gtn, gm,
                   peer, returned, app>>

\* handleMouseDown: the left button (0) starts a drag, another button
\* changes nothing
HandleMouseDown(button, screen) ==
    /\ canvas' = IF button = 0
                 THEN [canvas EXCEPT !.isPanning = TRUE, !.lastPanPos = screen]
                 ELSE canvas
    /\ UNCHANGED <<clock, closedCells, degenerate, instance, out, call, gtn, gm,
                   peer, returned, app>>

\* handleMouseUp: setIsPanning(false), setLastPanPos(null)
HandleMouseUp ==
    /\ canvas' = [canvas EXCEPT !.isPanning = FALSE, !.lastPanPos = Null]
    /\ UNCHANGED <<clock, closedCells, degenerate, instance, out, call, gtn, gm,
                   peer, returned, app>>

\* handleMouseLeave: the hover and the drag end
HandleMouseLeave ==
    /\ canvas' = [canvas EXCEPT !.hoveredTerritory = Null, !.mousePos = Null,
                                !.isPanning = FALSE, !.lastPanPos = Null]
    /\ UNCHANGED <<clock, closedCells, degenerate, instance, out, call, gtn, gm,
                   peer, returned, app>>

NextCanvas ==
    \/ \E deltaY \in DeltaYs, mouse \in MousePositions : HandleWheel(deltaY, mouse)
    \/ \E screen \in ScreenPositions : HandleMouseMove(screen)
    \/ \E button \in {0, 2}, screen \in DownPositions :
           HandleMouseDown(button, screen)
    \/ HandleMouseUp
    \/ HandleMouseLeave
    \/ ZoomInClick
    \/ ZoomOutClick
    \/ HandleReset

SpecCanvas == InitDirect /\ [][NextCanvas]_vars

\* C30: after any sequence of wheel events and '+', '-' and Reset clicks
\* from zoom = 1, the zoom factor is at least 0.5 and at most 5
C30_ZoomWithinRange ==
    /\ ~DLess(canvas.zoom, MinZoom)
    /\ ~DLess(MaxZoom, canvas.zoom)

\* nine '+' clicks and a wheel event have brought the zoom to its upper
\* limit, 1.2^9 being above 5, and the wheel has moved the pan
C30_Witness ==
    /\ canvas.clicks >= 9
    /\ canvas.wheels >= 1
    /\ canvas.zoom = MaxZoom
    /\ canvas.pan # <<DZero, DZero>>

====
